---- MODULE Spec2Model ----
(***************************************************************************)
(* State-machine model of circus-crx-tool: the CRX row-predictor codec     *)
(* (src/src/crx.rs), the PCK archive reader and writer (src/src/pck.rs)    *)
(* and the pack / unpack commands (src/src/main.rs).                       *)
(*                                                                         *)
(* Buffers are sequences of bytes; a Rust index i is position i + 1 of the *)
(* sequence.  An out-of-range index or a checked arithmetic overflow is    *)
(* the outcome "panic"; a returned Err is the outcome "err".               *)
(***************************************************************************)
EXTENDS Integers, Sequences, FiniteSets, TLC

VARIABLES
    pc,         \* position of the CRX command being run
    build,      \* TRUE: integer overflow is checked (debug profile)
    hdr,        \* header words of the CRX stream being read
    adata,      \* decompressed predictor stream handed to decode_image
    crx,        \* the Crx value (NoCrx before read_from returns)
    enc,        \* result of the last encode_image_bbp24/32 call
    redec,      \* result of decoding enc again
    outcome,    \* result of the last fallible operation
    stream,     \* the bytes of the CRX stream handed to read_from
    saved,      \* the bytes write_to has written
    codec,      \* the decompressor read_from chose
    wpc,        \* position of the PCK command being run
    plan,       \* the files handed to pack / the reader's source layout
    file,       \* the bytes of the archive file
    file_headers,     \* PckWriter::file_headers
    header_max_size,  \* PckWriter::header_max_size
    written,    \* for every entry, the bytes written to it so far
    archive,    \* result of PckReader::new and of copying every entry out
    sub,        \* a PckFileReaderMut: its header and pos
    ret,        \* result of the last call on sub
    sub2,       \* a second PckFileReaderMut over the same source
    source_pos  \* the position of the source the readers share

crxVars == <<pc, build, hdr, adata, crx, enc, redec, outcome, stream, saved, codec>>

pckVars == <<wpc, plan, file, file_headers, header_max_size, written, archive>>

subVars == <<sub, ret, sub2, source_pos>>

vars == <<crxVars, pckVars, subVars>>

-----------------------------------------------------------------------------
(* Bounds of the model. *)

MaxW == 2       \* largest image width
MaxH == 2       \* largest image height

(* The bytes row payloads are drawn from: they make 8-bit sums wrap and    *)
(* make runs (equal neighbours) and non-runs in mode 4.                    *)
RleBytes == {1, 2}

-----------------------------------------------------------------------------
(* Bytes and buffers. *)

Byte == 0 .. 255

AddB(a, b) == (a + b) % 256         \* u8::overflowing_add(..).0
SubB(a, b) == (a - b + 256) % 256   \* u8::overflowing_sub(..).0

InB(s, i) == i >= 0 /\ i < Len(s)   \* index i is in range
At(s, i) == s[i + 1]
Put(s, i, v) == [s EXCEPT ![i + 1] = v]
Zeros(n) == [i \in 1 .. n |-> 0]    \* vec.resize(n, 0)

Max(a, b) == IF a >= b THEN a ELSE b

StartsWith(s, p) == Len(s) >= Len(p) /\ SubSeq(s, 1, Len(p)) = p

\* The state a row decoder works on: the outcome so far, the pixel buffer
\* dst, the read position src_p in the stream, and the row modes recorded.
RowState(dst, src_p) ==
    [st |-> "ok", dst |-> dst, src_p |-> src_p, encode_type |-> <<>>]
RowPanic(c) == [c EXCEPT !.st = "panic"]

-----------------------------------------------------------------------------
(* Crx::decode_row0 .. decode_row4.  Each takes the state c and returns    *)
(* the state after the row; a state that is not "ok" passes through.       *)

\* n literal bytes: dst[dst_p] = src[src_p]
RECURSIVE CopyLoop(_, _, _, _)
CopyLoop(c, dst_p, src, n) ==
    IF c.st # "ok" \/ n <= 0 THEN c
    ELSE IF ~InB(src, c.src_p) \/ ~InB(c.dst, dst_p) THEN RowPanic(c)
    ELSE CopyLoop([c EXCEPT !.dst = Put(@, dst_p, At(src, c.src_p)),
                            !.src_p = @ + 1],
                  dst_p + 1, src, n - 1)

\* n predicted bytes: dst[dst_p] = src[src_p] + dst[prev_p], all three advancing
RECURSIVE AddLoop(_, _, _, _, _)
AddLoop(c, dst_p, src, prev_p, n) ==
    IF c.st # "ok" \/ n <= 0 THEN c
    ELSE IF ~InB(src, c.src_p) \/ ~InB(c.dst, prev_p) \/ ~InB(c.dst, dst_p)
      THEN RowPanic(c)
    ELSE AddLoop([c EXCEPT !.dst = Put(@, dst_p, AddB(At(src, c.src_p), At(@, prev_p))),
                           !.src_p = @ + 1],
                 dst_p + 1, src, prev_p + 1, n - 1)

\* A row 0 decoder that adds the byte one position to the left.
decode_row0Byte(c, dst_p, src, width, pixel_size) ==
    AddLoop(CopyLoop(c, dst_p, src, pixel_size),
            dst_p + pixel_size, src, dst_p + pixel_size - 1,
            (width - 1) * pixel_size)

decode_row0(c, dst_p, src, width, pixel_size) ==
    AddLoop(CopyLoop(c, dst_p, src, pixel_size),
            dst_p + pixel_size, src, dst_p, (width - 1) * pixel_size)

decode_row1(c, dst_p, src, width, pixel_size, prev_row_p) ==
    AddLoop(c, dst_p, src, prev_row_p, width * pixel_size)

\* A row 2 decoder that advances prev_row_p over the literal pixel.
decode_row2Top(c, dst_p, src, width, pixel_size, prev_row_p) ==
    AddLoop(CopyLoop(c, dst_p, src, pixel_size),
            dst_p + pixel_size, src, prev_row_p + pixel_size,
            (width - 1) * pixel_size)

\* prev_row_p is not advanced over the literal pixel
decode_row2(c, dst_p, src, width, pixel_size, prev_row_p) ==
    AddLoop(CopyLoop(c, dst_p, src, pixel_size),
            dst_p + pixel_size, src, prev_row_p, (width - 1) * pixel_size)

decode_row3(c, dst_p, src, width, pixel_size, prev_row_p) ==
    CopyLoop(AddLoop(c, dst_p, src, prev_row_p + pixel_size,
                     Max(width - 1, 0) * pixel_size),
             dst_p + Max(width - 1, 0) * pixel_size, src, pixel_size)

\* for _ in 0..count { dst[dst_c] = value; dst_c += pixel_size }
RECURSIVE RunFill(_, _, _, _, _)
RunFill(c, dst_c, value, count, pixel_size) ==
    IF c.st # "ok" \/ count <= 0 THEN c
    ELSE IF ~InB(c.dst, dst_c) THEN RowPanic(c)
    ELSE RunFill([c EXCEPT !.dst = Put(@, dst_c, value)], dst_c + pixel_size,
                 value, count - 1, pixel_size)

\* One channel of a mode-4 row.  Row4Chan: a literal is read and written.
\* Row4After: unless the row is full, the next input byte is compared with
\* the literal; when equal it is consumed with the count after it and the
\* literal is written count more times.  Then again while remaining > 0.
RECURSIVE Row4Chan(_, _, _, _, _)
RECURSIVE Row4After(_, _, _, _, _, _)

Row4Chan(c, dst_c, src, remaining, pixel_size) ==
    IF c.st # "ok" THEN c
    ELSE IF ~InB(src, c.src_p) \/ ~InB(c.dst, dst_c) THEN RowPanic(c)
    ELSE Row4After([c EXCEPT !.dst = Put(@, dst_c, At(src, c.src_p)),
                             !.src_p = @ + 1],
                   dst_c + pixel_size, src, remaining - 1, At(src, c.src_p),
                   pixel_size)

Row4Again(c, dst_c, src, remaining, pixel_size) ==
    IF remaining > 0 THEN Row4Chan(c, dst_c, src, remaining, pixel_size) ELSE c

Row4After(c, dst_c, src, remaining, value, pixel_size) ==
    IF remaining = 0 THEN c
    ELSE IF ~InB(src, c.src_p) THEN RowPanic(c)
    ELSE IF value # At(src, c.src_p)
      THEN Row4Again(c, dst_c, src, remaining, pixel_size)
    ELSE IF ~InB(src, c.src_p + 1) THEN RowPanic(c)
    ELSE Row4Again(RunFill([c EXCEPT !.src_p = @ + 2], dst_c, value,
                           At(src, c.src_p + 1), pixel_size),
                   dst_c + At(src, c.src_p + 1) * pixel_size, src,
                   remaining - At(src, c.src_p + 1), pixel_size)

RECURSIVE Row4Chans(_, _, _, _, _, _)
Row4Chans(c, dst_p, src, width, pixel_size, offset) ==
    IF c.st # "ok" \/ offset >= pixel_size THEN c
    ELSE Row4Chans(Row4Chan(c, dst_p + offset, src, width, pixel_size),
                   dst_p, src, width, pixel_size, offset + 1)

decode_row4(c, dst_p, src, width, pixel_size) ==
    Row4Chans(c, dst_p, src, width, pixel_size, 0)

-----------------------------------------------------------------------------
(* Crx::decode_image *)

\* A reorder that rotates the colour channels instead of swapping them.
ReorderBad(dst, pixel_size) ==
    [i \in 1 .. Len(dst) |->
        IF pixel_size = 4 /\ (i - 1) % pixel_size = 3
          THEN 255 - dst[((i - 1) \div pixel_size) * pixel_size + 1]
          ELSE dst[((i - 1) \div pixel_size) * pixel_size
                   + ((((i - 1) % pixel_size) + 1) % pixel_size) + 1]]

\* The post-decode channel reorder: (b,g,r) -> (r,g,b) for 3-byte pixels,
\* (a,b,g,r) -> (r,g,b,0xff - a) for 4-byte pixels.
Reorder(dst, pixel_size) ==
    [i \in 1 .. Len(dst) |->
        IF pixel_size = 4 /\ (i - 1) % pixel_size = 3
          THEN 255 - dst[((i - 1) \div pixel_size) * pixel_size + 1]
          ELSE dst[((i - 1) \div pixel_size) * pixel_size
                   + (pixel_size - 1 - ((i - 1) % pixel_size)) + 1]]

decode_row(data, c, dst_p, src, width, pixel_size, prev_row_p) ==
    CASE data = 0 -> decode_row0(c, dst_p, src, width, pixel_size)
      [] data = 1 -> decode_row1(c, dst_p, src, width, pixel_size, prev_row_p)
      [] data = 2 -> decode_row2(c, dst_p, src, width, pixel_size, prev_row_p)
      [] data = 3 -> decode_row3(c, dst_p, src, width, pixel_size, prev_row_p)
      [] data = 4 -> decode_row4(c, dst_p, src, width, pixel_size)

\* The row loop of decode_image: the mode byte is read and recorded, then
\* the row is decoded.  The result holds the buffer before the reorder.
RECURSIVE DecodeRows(_, _, _, _, _, _, _)
DecodeRows(c, src, width, height, pixel_size, dst_p, prev_row_p) ==
    IF c.st # "ok" \/ Len(c.encode_type) >= height THEN c
    ELSE IF ~InB(src, c.src_p) THEN RowPanic(c)
    ELSE IF At(src, c.src_p) \notin 0 .. 4
      THEN [c EXCEPT !.st = "err", !.encode_type = Append(@, At(src, c.src_p)),
                     !.src_p = @ + 1]
    ELSE DecodeRows(decode_row(At(src, c.src_p),
                               [c EXCEPT !.encode_type = Append(@, At(src, c.src_p)),
                                         !.src_p = @ + 1],
                               dst_p, src, width, pixel_size, prev_row_p),
                    src, width, height, pixel_size, dst_p + pixel_size * width,
                    dst_p)

ReorderResult(r, pixel_size) ==
    IF r.st # "ok" THEN r ELSE [r EXCEPT !.dst = Reorder(@, pixel_size)]

\* st: "ok", "err" (invalid row type) or "panic"; dst: the pixels;
\* encode_type: the row modes; src_p: the bytes of src consumed.
decode_image(dst, src, width, height, pixel_size) ==
    ReorderResult(DecodeRows(RowState(dst, 0), src, width, height, pixel_size, 0, 0),
                  pixel_size)

-----------------------------------------------------------------------------
(* Crx::encode_bbp24_row0..4, encode_bbp32_row0..4, encode_image_bbp24/32.  *)
(* The 24-bit and the 32-bit encoders differ only in the pixel size and in  *)
(* the alpha complement of channel 0, so one operator with the pixel size   *)
(* as parameter models each pair.  Every encoder writes dst at dst_p,       *)
(* dst_p + 1, ... in increasing order, so the written prefix is the         *)
(* sequence out and a write at an index >= size is a panic.  Each takes     *)
(* the state e and returns the state after the row.                         *)

EncOk(out, size) == [st |-> "ok", out |-> out, size |-> size]

EncPanic(e) == IF e.st # "ok" THEN e ELSE [e EXCEPT !.st = "panic"]

Emit(e, v) ==
    IF e.st # "ok" THEN e
    ELSE IF Len(e.out) >= e.size THEN [e EXCEPT !.st = "panic"]
    ELSE [e EXCEPT !.out = Append(@, v)]

\* The byte the predictor sees for output channel k of the pixel at src_p:
\* src[src_p + 2 - k] (24 bit); 0xff - src[src_p + 3], src[src_p + 3 - k] (32 bit).
Native(src, src_p, k, pixel_size) ==
    IF pixel_size = 4 /\ k = 0 THEN 255 - At(src, src_p + 3)
    ELSE At(src, src_p + pixel_size - 1 - k)

PixelInB(src, src_p, pixel_size) ==
    InB(src, src_p) /\ InB(src, src_p + pixel_size - 1)

\* One literal pixel.
RECURSIVE EmitLiteral(_, _, _, _, _)
EmitLiteral(e, src, src_p, pixel_size, k) ==
    IF k >= pixel_size \/ e.st # "ok" THEN e
    ELSE IF ~PixelInB(src, src_p, pixel_size) THEN EncPanic(e)
    ELSE EmitLiteral(Emit(e, Native(src, src_p, k, pixel_size)), src, src_p,
                     pixel_size, k + 1)

\* One predicted pixel: the pixel at src_p minus the pixel at ref_p.
RECURSIVE EmitDiff(_, _, _, _, _, _)
EmitDiff(e, src, src_p, ref_p, pixel_size, k) ==
    IF k >= pixel_size \/ e.st # "ok" THEN e
    ELSE IF ~PixelInB(src, src_p, pixel_size) \/ ~PixelInB(src, ref_p, pixel_size)
      THEN EncPanic(e)
    ELSE EmitDiff(Emit(e, SubB(Native(src, src_p, k, pixel_size),
                               Native(src, ref_p, k, pixel_size))),
                  src, src_p, ref_p, pixel_size, k + 1)

\* n predicted pixels, src_p and ref_p advancing by one pixel each.
RECURSIVE DiffLoop(_, _, _, _, _, _)
DiffLoop(e, src, src_p, ref_p, pixel_size, n) ==
    IF n <= 0 \/ e.st # "ok" THEN e
    ELSE DiffLoop(EmitDiff(e, src, src_p, ref_p, pixel_size, 0), src,
                  src_p + pixel_size, ref_p + pixel_size, pixel_size, n - 1)

\* (y - 1) as usize * width as usize * pixel_size.  For y = 0 the first
\* factor is usize::MAX: the product is 0 for width 0 and overflows otherwise;
\* a build that checks overflow panics (PrevRowOverflow), one that does not
\* wraps to 2^64 - width * pixel_size, written here as the negative number
\* -(width * pixel_size): an index below 0 stands for one at or above 2^63.
PrevRowOverflow(y, width, checked) == y < 1 /\ width # 0 /\ checked

PrevRowStart(y, width, pixel_size) ==
    IF y >= 1 THEN (y - 1) * width * pixel_size ELSE 0 - width * pixel_size

encode_row0(e, src, width, y, pixel_size, checked) ==
    DiffLoop(EmitLiteral(e, src, y * width * pixel_size, pixel_size, 0), src,
             y * width * pixel_size + pixel_size, y * width * pixel_size,
             pixel_size, width - 1)

encode_row1(e, src, width, y, pixel_size, checked) ==
    IF PrevRowOverflow(y, width, checked) THEN EncPanic(e)
    ELSE DiffLoop(e, src, y * width * pixel_size,
                  PrevRowStart(y, width, pixel_size), pixel_size, width)

encode_row2(e, src, width, y, pixel_size, checked) ==
    IF PrevRowOverflow(y, width, checked) THEN EncPanic(e)
    ELSE DiffLoop(EmitLiteral(e, src, y * width * pixel_size, pixel_size, 0), src,
                  y * width * pixel_size + pixel_size,
                  PrevRowStart(y, width, pixel_size), pixel_size, width - 1)

encode_row3(e, src, width, y, pixel_size, checked) ==
    IF PrevRowOverflow(y, width, checked) THEN EncPanic(e)
    ELSE EmitLiteral(DiffLoop(e, src, y * width * pixel_size,
                              PrevRowStart(y, width, pixel_size) + pixel_size,
                              pixel_size, Max(width - 1, 0)),
                     src, y * width * pixel_size + Max(width - 1, 0) * pixel_size,
                     pixel_size, 0)

\* The count loop of the mode-4 encoder: how many of the bytes at src_c,
\* src_c + pixel_size, ... equal value, at most remaining and at most 255
\* (-1: src is read out of range).
RECURSIVE RunLen(_, _, _, _, _, _)
RunLen(src, src_c, value, remaining, pixel_size, count) ==
    IF count >= remaining \/ count >= 255 THEN count
    ELSE IF ~InB(src, src_c) THEN 0 - 1
    ELSE IF At(src, src_c) # value THEN count
    ELSE RunLen(src, src_c + pixel_size, value, remaining, pixel_size, count + 1)

\* inv: the channel is stored as 0xff - value (offset 0 of a 32-bit pixel).
Stored(value, inv) == IF inv THEN 255 - value ELSE value

\* One channel of a mode-4 row.  Enc4Chan: a literal is written.
\* Enc4After: unless the row is done, the run after the literal is counted.
\* Enc4Run: a run of count > 0 is written as "value, count".  Then again
\* while remaining > 0.
RECURSIVE Enc4Chan(_, _, _, _, _, _)

Enc4Again(e, src, src_c, remaining, pixel_size, inv) ==
    IF remaining > 0 THEN Enc4Chan(e, src, src_c, remaining, pixel_size, inv) ELSE e

Enc4Run(e, src, src_c, remaining, value, count, pixel_size, inv) ==
    IF count < 0 THEN EncPanic(e)
    ELSE IF count > 0
      THEN Enc4Again(Emit(Emit(e, Stored(value, inv)), count), src,
                     src_c + count * pixel_size, remaining - count, pixel_size, inv)
    ELSE Enc4Again(e, src, src_c, remaining, pixel_size, inv)

Enc4After(e, src, src_c, remaining, value, pixel_size, inv) ==
    IF e.st # "ok" \/ remaining = 0 THEN e
    ELSE Enc4Run(e, src, src_c, remaining, value,
                 RunLen(src, src_c, value, remaining, pixel_size, 0), pixel_size, inv)

Enc4Chan(e, src, src_c, remaining, pixel_size, inv) ==
    IF e.st # "ok" THEN e
    ELSE IF ~InB(src, src_c) THEN EncPanic(e)
    ELSE Enc4After(Emit(e, Stored(At(src, src_c), inv)), src, src_c + pixel_size,
                   remaining - 1, At(src, src_c), pixel_size, inv)

RECURSIVE Enc4Chans(_, _, _, _, _, _)
Enc4Chans(e, src, src_p, width, pixel_size, offset) ==
    IF offset >= pixel_size \/ e.st # "ok" THEN e
    ELSE Enc4Chans(Enc4Chan(e, src, src_p + pixel_size - 1 - offset, width,
                            pixel_size, pixel_size = 4 /\ offset = 0),
                   src, src_p, width, pixel_size, offset + 1)

encode_row4(e, src, width, y, pixel_size, checked) ==
    Enc4Chans(e, src, y * width * pixel_size, width, pixel_size, 0)

encode_row(data, e, src, width, y, pixel_size, checked) ==
    CASE data = 0 -> encode_row0(e, src, width, y, pixel_size, checked)
      [] data = 1 -> encode_row1(e, src, width, y, pixel_size, checked)
      [] data = 2 -> encode_row2(e, src, width, y, pixel_size, checked)
      [] data = 3 -> encode_row3(e, src, width, y, pixel_size, checked)
      [] data = 4 -> encode_row4(e, src, width, y, pixel_size, checked)

\* The row loop of encode_image: the mode byte is written, then the row.
RECURSIVE EncodeRows(_, _, _, _, _, _, _, _)
EncodeRows(e, src, width, height, row_type, pixel_size, checked, y) ==
    IF y >= height \/ e.st # "ok" THEN e
    ELSE IF ~InB(row_type, y) \/ Len(e.out) >= e.size THEN EncPanic(e)
    ELSE IF At(row_type, y) \notin 0 .. 4
      THEN [e EXCEPT !.st = "err", !.out = Append(@, At(row_type, y))]
    ELSE EncodeRows(encode_row(At(row_type, y), Emit(e, At(row_type, y)), src,
                               width, y, pixel_size, checked),
                    src, width, height, row_type, pixel_size, checked, y + 1)

\* The result: st ("ok", "err" or "panic") and for st = "ok" the whole
\* buffer dst, of size bytes, zero after the last row; used: bytes written.
EncResult(e) ==
    [st |-> e.st,
     dst |-> IF e.st = "ok" THEN e.out \o Zeros(e.size - Len(e.out)) ELSE <<>>,
     used |-> Len(e.out)]

encode_image(src, width, height, row_type, pixel_size, checked) ==
    EncResult(EncodeRows(EncOk(<<>>, width * height * pixel_size + height), src,
                         width, height, row_type, pixel_size, checked, 0))

encode_image_bbp24(src, width, height, row_type, checked) ==
    encode_image(src, width, height, row_type, 3, checked)

encode_image_bbp32(src, width, height, row_type, checked) ==
    encode_image(src, width, height, row_type, 4, checked)

-----------------------------------------------------------------------------
(* Compression (src/src/utils.rs, fdeflate): an injective framing of the    *)
(* inner bytes; a Zstandard frame starts with 28 B5 2F FD.                  *)

ZstdMagic == <<40, 181, 47, 253>>
DeflateHead == <<120, 156>>

compress_data(data) == ZstdMagic \o data
DeflateFrame(data) == DeflateHead \o data

-----------------------------------------------------------------------------
(* The Crx value. *)

PixelSize(bpp) == IF bpp = 0 THEN 3 ELSE 4

NoCrx ==
    [valid |-> FALSE, inner_x |-> 0, inner_y |-> 0, width |-> 0, height |-> 0,
     version |-> 0, flags |-> 0, bpp |-> 0, unknown |-> 0, data |-> <<>>,
     compressed_data |-> <<>>, clips |-> <<>>, encode_type |-> <<>>]

NoEnc == [st |-> "none", dst |-> <<>>, used |-> 0]
NoDec == [st |-> "none", dst |-> <<>>, src_p |-> 0, encode_type |-> <<>>]

\* The Crx value read_from builds from the header h, the compressed payload
\* and the result r of decode_image (crx.rs 137-152).
BuildCrx(h, compressed, r) ==
    [st |-> r.st,
     crx |-> IF r.st # "ok" THEN NoCrx
             ELSE [valid |-> TRUE, inner_x |-> h.inner_x, inner_y |-> h.inner_y,
                   width |-> h.width, height |-> h.height,
                   version |-> h.version, flags |-> h.flags, bpp |-> h.bpp,
                   unknown |-> h.unknown, data |-> r.dst,
                   compressed_data |-> compressed, clips |-> h.clips,
                   encode_type |-> r.encode_type]]

\* Crx::read_from from the point where the header has been accepted and the
\* payload decompressed to src: the pixel buffer is allocated, decode_image
\* fills it, and the Crx value is built only when decode_image returned Ok.
read_from(h, compressed, src) ==
    BuildCrx(h, compressed,
             decode_image(Zeros(h.width * h.height * PixelSize(h.bpp)), src,
                          h.width, h.height, PixelSize(h.bpp)))

\* The encode call of import_png (crx.rs 215-219).
encode_for(self, data, checked) ==
    IF self.bpp = 0
      THEN encode_image_bbp24(data, self.width, self.height, self.encode_type, checked)
      ELSE encode_image_bbp32(data, self.width, self.height, self.encode_type, checked)

-----------------------------------------------------------------------------
(* Inputs of the codec runs. *)

PatSeeds == {1, 131}

\* A row payload of n bytes: seed, 2 * seed, 3 * seed, ... modulo 256.
Pattern(seed, n) == [k \in 1 .. n |-> (seed * k) % 256]

\* Sequences over RleBytes of length 1 .. n
RECURSIVE SeqsUpTo(_)
SeqsUpTo(n) ==
    IF n <= 0 THEN {}
    ELSE IF n = 1 THEN {<<b>> : b \in RleBytes}
    ELSE LET S == SeqsUpTo(n - 1)
         IN  S \cup {Append(q, b) : q \in {x \in S : Len(x) = n - 1}, b \in RleBytes}

RECURSIVE Repeat(_, _)
Repeat(q, n) == IF n <= 0 THEN <<>> ELSE q \o Repeat(q, n - 1)

\* The rows a stream is made of: the mode byte, then width * pixel_size
\* payload bytes for the modes 0 .. 3, and for mode 4 one literal/run
\* sequence per channel.
RowsOf(width, pixel_size, seeds, rle) ==
    {<<m>> \o Pattern(seed, width * pixel_size) : m \in 0 .. 3, seed \in seeds}
    \cup {<<4>> \o Repeat(q, pixel_size) : q \in rle}

\* Mode-4 channels with runs that fill the row exactly, fall short of it or
\* pass its end.
RowSet(width, pixel_size) ==
    RowsOf(width, pixel_size, PatSeeds, SeqsUpTo(width + 1))

\* Mode-4 channels of width literals without a run.
ImportRowSet(width, pixel_size) ==
    RowsOf(width, pixel_size, {1}, {Pattern(1, Max(width, 1))})

RECURSIVE StreamsOf(_, _)
StreamsOf(rows, height) ==
    IF height <= 0 THEN {<<>>}
    ELSE {r \o t : r \in rows, t \in StreamsOf(rows, height - 1)}

StreamSet(width, pixel_size, height) ==
    StreamsOf(RowSet(width, pixel_size), height)

ImportStreamSet(width, pixel_size, height) ==
    StreamsOf(ImportRowSet(width, pixel_size), height)

Headers ==
    [inner_x : {0}, inner_y : {0}, width : 0 .. MaxW, height : 1 .. MaxH,
     version : {2}, flags : {0}, bpp : {0, 1}, unknown : {0}, clips : {<<>>}]

-----------------------------------------------------------------------------
(* The PCK archive (src/src/pck.rs).  The file is the sequence of its       *)
(* bytes; a seek followed by a read or a write is a read or a write at a    *)
(* position.                                                                *)

BlockSize == 2048       \* 0x800: the step of the header and the copy buffer
EntrySize == 72         \* 0x48: index bytes counted for one entry
NameField == 56         \* 0x38: bytes of the name field of the long table
CopyBuf == 8192         \* the buffer std::io::copy reads with

Min(a, b) == IF a < b THEN a ELSE b

\* Read::read at pos on a regular file: at most n bytes, fewer at the end.
ReadAt(f, pos, n) == SubSeq(f, pos + 1, Min(pos + n, Len(f)))

\* Write::write_all at pos: a write past the end leaves a hole of zeros;
\* a write of no bytes changes nothing.
WriteAt(f, pos, bytes) ==
    IF Len(bytes) = 0 THEN f
    ELSE (IF pos <= Len(f) THEN SubSeq(f, 1, pos) ELSE f \o Zeros(pos - Len(f)))
         \o bytes \o SubSeq(f, pos + Len(bytes) + 1, Len(f))

\* ExtWriter::write_u32: four bytes, little endian.
write_u32(v) ==
    <<v % 256, (v \div 256) % 256, (v \div 65536) % 256, (v \div 16777216) % 256>>

\* ExtReader::read_u32 at pos (the caller has checked that 4 bytes are there).
read_u32(f, pos) ==
    f[pos + 1] + 256 * f[pos + 2] + 65536 * f[pos + 3] + 16777216 * f[pos + 4]

\* ExtWriter::write_cstring_with_size(s, n): the bytes of s, then zeros up
\* to n bytes; the caller has checked Len(s) <= n.
write_cstring_with_size(s, n) ==
    [k \in 1 .. n |-> IF k <= Len(s) THEN s[k] ELSE 0]

\* ExtReader::read_cstring_with_size(size) at pos: the bytes before the
\* first NUL of the field, or the whole field.
RECURSIVE NulPos(_, _, _, _)
NulPos(f, pos, size, k) ==
    IF k >= size THEN size
    ELSE IF f[pos + k + 1] = 0 THEN k
    ELSE NulPos(f, pos, size, k + 1)

read_cstring_with_size(f, pos, size) ==
    SubSeq(f, pos + 1, pos + NulPos(f, pos, size, 0))

\* str::from_utf8 on a name: the names of the model are ASCII.
Utf8(bytes) == \A k \in 1 .. Len(bytes) : bytes[k] < 128

-----------------------------------------------------------------------------
(* PckWriter.  w is the writer: file, file_headers, header_max_size.        *)

PckWriterNew(f, size) ==
    [file |-> f, file_headers |-> <<>>, header_max_size |-> size]

\* file_count * 0x48 + 4 as calculate_header_size computes it in u32: the
\* value is 4 * (18 * file_count + 1), and the product and the sum wrap at
\* 2^32 in a build without overflow checks, so a quarter of it wraps at 2^30.
HeaderBytes(file_count) == 4 * ((18 * file_count + 1) % 1073741824)

\* file_count * 0x48 + 4 leaves u32: a build with overflow checks aborts.
HeaderBytesOverflow(file_count) == 18 * file_count + 1 >= 1073741824

\* A header size rounded down to the block below.
calculate_header_sizeDown(file_count) ==
    HeaderBytes(file_count) - (HeaderBytes(file_count) % BlockSize)

\* PckWriter::calculate_header_size
calculate_header_size(file_count) ==
    IF HeaderBytes(file_count) % BlockSize # 0
      THEN HeaderBytes(file_count)
           + (BlockSize - (HeaderBytes(file_count) % BlockSize))
    ELSE HeaderBytes(file_count)

\* One turn of the copy loop of check_header_capacity with buffer2 read:
\* buffer1 is written at buffer1_start, which then advances by the size of
\* the block just read; the next read is at the position the write left.
RECURSIVE CopyForward(_, _, _, _)

CopyTurn(f, buffer2, buffer1, buffer1_start) ==
    IF Len(buffer2) = 0 THEN WriteAt(f, buffer1_start, buffer1)
    ELSE CopyForward(WriteAt(f, buffer1_start, buffer1),
                     buffer1_start + Len(buffer1), buffer2,
                     buffer1_start + Len(buffer2))

\* The copy loop with the file position at pos.
CopyForward(f, pos, buffer1, buffer1_start) ==
    CopyTurn(f, ReadAt(f, pos, BlockSize), buffer1, buffer1_start)

\* A relocation that leaves the offsets of the index as they were.
ShiftNone(hs) == hs

ShiftOffsets(hs) ==
    [i \in 1 .. Len(hs) |-> [hs[i] EXCEPT !.offset = @ + BlockSize]]

\* A capacity check that lets the index fill the reserved block exactly
\* one entry longer.
HeaderFitsLate(w) ==
    (Len(w.file_headers) - 1) * EntrySize + 4 < w.header_max_size

\* The test of check_header_capacity: the index of the entries fits.
HeaderFits(w) ==
    Len(w.file_headers) * EntrySize + 4 < w.header_max_size

\* A growth by the size of one index entry.
new_header_capacityEntry(w) == w.header_max_size + EntrySize

\* new_header_capacity of check_header_capacity: one block more.
new_header_capacity(w) == w.header_max_size + BlockSize

\* A capacity check that shifts the entries before the one just appended.
check_header_capacityBefore(w) ==
    IF HeaderFits(w) THEN w
    ELSE [file |-> CopyForward(w.file, w.header_max_size, Zeros(BlockSize),
                               w.header_max_size),
          file_headers |->
              ShiftOffsets(SubSeq(w.file_headers, 1, Len(w.file_headers) - 1))
                \o <<w.file_headers[Len(w.file_headers)]>>,
          header_max_size |-> new_header_capacity(w)]

\* PckWriter::check_header_capacity
check_header_capacity(w) ==
    IF HeaderFits(w) THEN w
    ELSE [file |-> CopyForward(w.file, w.header_max_size, Zeros(BlockSize),
                               w.header_max_size),
          file_headers |-> ShiftOffsets(w.file_headers),
          header_max_size |-> new_header_capacity(w)]

\* An offset that leaves the previous entry's size out.
NextOffsetSame(w) ==
    IF Len(w.file_headers) = 0 THEN w.header_max_size
    ELSE w.file_headers[Len(w.file_headers)].offset

\* The offset add_file gives the new entry.
NextOffset(w) ==
    IF Len(w.file_headers) = 0 THEN w.header_max_size
    ELSE w.file_headers[Len(w.file_headers)].offset
         + w.file_headers[Len(w.file_headers)].size

\* An add_file that puts the new entry before the entries of the index.
add_fileFront(w, name) ==
    check_header_capacity(
        [w EXCEPT !.file_headers =
            <<[name |-> name, offset |-> NextOffset(w), size |-> 0]>> \o @])

\* PckWriter::add_file
add_file(w, name) ==
    check_header_capacity(
        [w EXCEPT !.file_headers =
            Append(@, [name |-> name, offset |-> NextOffset(w), size |-> 0])])

\* A write that starts at the entry's offset again on every call.
PckFileWriteRestart(w, buf) ==
    [w EXCEPT !.file = WriteAt(@, w.file_headers[Len(w.file_headers)].offset, buf),
              !.file_headers[Len(w.file_headers)].size = @ + Len(buf)]

\* PckFileWriter::write on the writer add_file returned: the last entry.
PckFileWrite(w, buf) ==
    [w EXCEPT !.file = WriteAt(@, NextOffset(w), buf),
              !.file_headers[Len(w.file_headers)].size = @ + Len(buf)]

\* The short table of write_header: (offset, size) of every entry.
ShortTable(hs) ==
    [k \in 1 .. 8 * Len(hs) |->
        IF (k - 1) % 8 < 4
          THEN write_u32(hs[((k - 1) \div 8) + 1].offset)[((k - 1) % 8) + 1]
          ELSE write_u32(hs[((k - 1) \div 8) + 1].size)[((k - 1) % 8) - 3]]

\* One record of the long table: the name field, offset, size.
LongRecord(h) ==
    write_cstring_with_size(h.name, NameField) \o write_u32(h.offset)
        \o write_u32(h.size)

\* The records of the long table up to the first name that does not fit
\* its field.
RECURSIVE LongTable(_, _)
LongTable(hs, i) ==
    IF i > Len(hs) \/ Len(hs[i].name) > NameField THEN <<>>
    ELSE LongRecord(hs[i]) \o LongTable(hs, i + 1)

NamesFit(hs) == \A i \in 1 .. Len(hs) : Len(hs[i].name) <= NameField

\* PckWriter::write_header: st is "ok" or "InvalidInput" (a name too long
\* for its field; what was written before it stays in the file).
write_header(w) ==
    [st |-> IF NamesFit(w.file_headers) THEN "ok" ELSE "InvalidInput",
     w |-> [w EXCEPT !.file =
                WriteAt(@, 0, write_u32(Len(w.file_headers))
                                \o ShortTable(w.file_headers)
                                \o LongTable(w.file_headers, 1))]]

-----------------------------------------------------------------------------
(* PckFileReaderMut: s is the reader, its header and its pos.               *)

SubReader(header) == [header |-> header, pos |-> 0]

\* The read of at most bytes_to_read bytes at offset + pos.
SubReadSome(f, s, bytes_to_read) ==
    IF bytes_to_read = 0 THEN [bytes |-> <<>>, sub |-> s]
    ELSE [bytes |-> ReadAt(f, s.header.offset + s.pos, bytes_to_read),
          sub |-> [s EXCEPT !.pos =
                     @ + Len(ReadAt(f, s.header.offset + s.pos, bytes_to_read))]]

\* A read that is bounded by the buffer only.
PckFileReadOpen(f, s, buf_len) == SubReadSome(f, s, buf_len)

\* PckFileReaderMut::read into a buffer of buf_len bytes: the bytes read
\* and the reader after the call.
PckFileRead(f, s, buf_len) ==
    SubReadSome(f, s, Min(buf_len, s.header.size - s.pos))

\* A seek that leaves the source where the last call on it left it.
SourceSeekNone(cursor, s) == cursor

\* self.reader.seek(SeekFrom::Start(offset + pos)): the position of the
\* source after the seek, whatever it was before.
SourceSeek(cursor, s) == s.header.offset + s.pos

\* self.reader.read of at most n bytes with the source at position at, and
\* the update of pos: the bytes, the reader and the source after it.
ReadSource(f, at, s, n) ==
    [bytes |-> ReadAt(f, at, n),
     sub |-> [s EXCEPT !.pos = @ + Len(ReadAt(f, at, n))],
     source_pos |-> at + Len(ReadAt(f, at, n))]

\* PckFileReaderMut::read with the source the reader shares with the other
\* readers of the archive, which is at cursor before the call: a call
\* that has nothing to read returns before the seek.
PckFileReadShared(f, cursor, s, buf_len) ==
    IF Min(buf_len, s.header.size - s.pos) = 0
      THEN [bytes |-> <<>>, sub |-> s, source_pos |-> cursor]
    ELSE ReadSource(f, SourceSeek(cursor, s), s,
                    Min(buf_len, s.header.size - s.pos))

\* The position a seek asks for.  An i64 offset is a small number n or one
\* of the ends of the type (ext = "max": i64::MAX, "min": i64::MIN); a u64
\* is a small number or u64::MAX (ext = "max").  at is "low" (n is the
\* position), "high" (the position is above every u32; a negative i64 sum
\* cast to u64 is one) or "overflow" (the i64 sum is out of range).
SeekStart(off) ==
    IF off.ext = "max" THEN [at |-> "high", n |-> 0] ELSE [at |-> "low", n |-> off.n]

SeekFromBase(base, off) ==
    IF off.ext = "max"
      THEN (IF base > 0 THEN [at |-> "overflow", n |-> 0] ELSE [at |-> "high", n |-> 0])
    ELSE IF off.ext = "min" \/ base + off.n < 0 THEN [at |-> "high", n |-> 0]
    ELSE [at |-> "low", n |-> base + off.n]

new_pos(s, whence, off) ==
    CASE whence = "Start" -> SeekStart(off)
      [] whence = "End" -> SeekFromBase(s.header.size, off)
      [] whence = "Current" -> SeekFromBase(s.pos, off)

\* The bounds test and the assignment of seek.  An overflowing sum panics
\* in a build that checks overflow and wraps to a negative number otherwise.
SeekTo(s, p, checked) ==
    IF p.at = "overflow" /\ checked THEN [st |-> "panic", n |-> 0, sub |-> s]
    ELSE IF p.at # "low" \/ p.n > s.header.size
      THEN [st |-> "InvalidInput", n |-> 0, sub |-> s]
    ELSE [st |-> "ok", n |-> p.n, sub |-> [s EXCEPT !.pos = p.n]]

\* PckFileReaderMut::seek
PckFileSeek(s, whence, off, checked) == SeekTo(s, new_pos(s, whence, off), checked)

\* PckFileReaderMut::rewind
PckFileRewind(s) == [s EXCEPT !.pos = 0]

-----------------------------------------------------------------------------
(* PckReader::new and unpack. *)

\* The position of record i of the long table, and the fields of the two
\* tables (pck.rs 121-122, 127-130).
RecordPos(count, i) == 4 + 8 * count + i * (NameField + 8)
ShortOffset(f, i) == read_u32(f, 4 + 8 * i)
ShortSize(f, i) == read_u32(f, 8 + 8 * i)
LongName(f, count, i) == read_cstring_with_size(f, RecordPos(count, i), NameField)
LongOffset(f, count, i) == read_u32(f, RecordPos(count, i) + NameField)
LongSize(f, count, i) == read_u32(f, RecordPos(count, i) + NameField + 4)

\* A comparison of the offsets only.
PairDiffersOffset(f, count, i) ==
    ShortOffset(f, i) # LongOffset(f, count, i)

\* The test of record i against the short table.
PairDiffers(f, count, i) ==
    \/ ShortOffset(f, i) # LongOffset(f, count, i)
    \/ ShortSize(f, i) # LongSize(f, count, i)

\* The result of PckReader::new that failed with st; name is the entry an
\* index mismatch names.
ReaderErr(st, name) == [st |-> st, file_headers |-> <<>>, name |-> name]

\* The long table from record i on, checked against the short table.
RECURSIVE ReadLong(_, _, _, _)
ReadLong(f, count, i, hs) ==
    IF i >= count THEN [st |-> "ok", file_headers |-> hs, name |-> <<>>]
    ELSE IF Len(f) < RecordPos(count, i) + NameField
      THEN ReaderErr("UnexpectedEof", <<>>)
    ELSE IF ~Utf8(LongName(f, count, i)) THEN ReaderErr("InvalidData", <<>>)
    ELSE IF Len(f) < RecordPos(count, i + 1) THEN ReaderErr("UnexpectedEof", <<>>)
    ELSE IF PairDiffers(f, count, i)
      THEN ReaderErr("IndexMismatch", LongName(f, count, i))
    ELSE ReadLong(f, count, i + 1,
             Append(hs, [name |-> LongName(f, count, i),
                         offset |-> LongOffset(f, count, i),
                         size |-> LongSize(f, count, i)]))

\* PckReader::new on the file f.
PckReaderNew(f) ==
    IF Len(f) < 4 THEN ReaderErr("UnexpectedEof", <<>>)
    ELSE IF Len(f) < 4 + 8 * read_u32(f, 0) THEN ReaderErr("UnexpectedEof", <<>>)
    ELSE ReadLong(f, read_u32(f, 0), 0, <<>>)

\* std::io::copy out of a sub-file reader: reads until a read returns 0.
RECURSIVE CopyOut(_, _, _)

CopyOutNext(f, r, out) ==
    IF Len(r.bytes) = 0 THEN out ELSE CopyOut(f, r.sub, out \o r.bytes)

CopyOut(f, s, out) == CopyOutNext(f, PckFileRead(f, s, CopyBuf), out)

\* The files unpack writes for the index hs.
Extract(f, hs) ==
    [i \in 1 .. Len(hs) |->
        [name |-> hs[i].name, bytes |-> CopyOut(f, SubReader(hs[i]), <<>>)]]

UnpackIndex(f, r) ==
    [st |-> r.st, file_headers |-> r.file_headers,
     files |-> Extract(f, r.file_headers), name |-> r.name]

\* unpack on the file f: the index read and the files written.
unpack(f) == UnpackIndex(f, PckReaderNew(f))

\* The mapping name -> bytes a sequence of files leaves in a directory:
\* a later file of the same name replaces an earlier one.
FileMap(files) ==
    {<<files[i].name, files[i].bytes>> :
        i \in {j \in 1 .. Len(files) :
                 \A k \in (j + 1) .. Len(files) : files[k].name # files[j].name}}

-----------------------------------------------------------------------------
(* The CRX stream (Crx::read_from from its first byte, Crx::write_to).      *)

MAGIC == 1196970563     \* 0x47585243, "CRXG"

\* ExtWriter::write_i16, write_i32: little endian, two's complement.
write_i16(v) == <<v % 256, (v \div 256) % 256>>

write_i32(v) ==
    <<v % 256, (v \div 256) % 256, (v \div 65536) % 256, (v \div 16777216) % 256>>

\* ExtReader::read_i16, read_i32 at pos (the caller has checked that the
\* bytes are there).
read_i16(f, pos) ==
    IF f[pos + 2] >= 128 THEN f[pos + 1] + 256 * (f[pos + 2] - 256)
    ELSE f[pos + 1] + 256 * f[pos + 2]

read_i32(f, pos) ==
    IF f[pos + 4] >= 128
      THEN f[pos + 1] + 256 * f[pos + 2] + 65536 * f[pos + 3]
           + 16777216 * (f[pos + 4] - 256)
    ELSE f[pos + 1] + 256 * f[pos + 2] + 65536 * f[pos + 3] + 16777216 * f[pos + 4]

\* flags & 0xF, flags & 0x10 and flags | 0x10 on an i16.
LowNibble(flags) == flags % 16
HasSizeField(flags) == (flags \div 16) % 2 = 1
\* The flags word written as it was read.
WithSizeFieldKept(flags) == flags
WithSizeField(flags) == IF HasSizeField(flags) THEN flags ELSE flags + 16

\* One record of the clip table: an i32 and six i16, 16 bytes.
ClipBytes == 16

write_clip(c) ==
    write_i32(c.field_0) \o write_i16(c.field_4) \o write_i16(c.field_6)
        \o write_i16(c.field_8) \o write_i16(c.field_a) \o write_i16(c.field_c)
        \o write_i16(c.field_e)

read_clip(f, pos) ==
    [field_0 |-> read_i32(f, pos), field_4 |-> read_i16(f, pos + 4),
     field_6 |-> read_i16(f, pos + 6), field_8 |-> read_i16(f, pos + 8),
     field_a |-> read_i16(f, pos + 10), field_c |-> read_i16(f, pos + 12),
     field_e |-> read_i16(f, pos + 14)]

RECURSIVE write_clips(_, _)
write_clips(clips, i) ==
    IF i > Len(clips) THEN <<>>
    ELSE write_clip(clips[i]) \o write_clips(clips, i + 1)

\* The result of a step of read_from that failed with st.
ReadErr(st) == [st |-> st, crx |-> NoCrx, codec |-> "none"]

\* A choice that tests the first two bytes of the Zstandard magic only.
DecompressTwo(compressed) ==
    IF StartsWith(compressed, SubSeq(ZstdMagic, 1, 2))
      THEN [st |-> "ok", codec |-> "zstd",
            adata |-> SubSeq(compressed, Len(ZstdMagic) + 1, Len(compressed))]
    ELSE IF StartsWith(compressed, DeflateHead)
      THEN [st |-> "ok", codec |-> "deflate",
            adata |-> SubSeq(compressed, Len(DeflateHead) + 1, Len(compressed))]
    ELSE [st |-> "Decompress", codec |-> "deflate", adata |-> <<>>]

\* The choice of the decompressor and its result.  A Zstandard frame is
\* its magic and the data, a deflate stream its two header bytes and the
\* data; other bytes are not a deflate stream.
Decompress(compressed) ==
    IF StartsWith(compressed, ZstdMagic)
      THEN [st |-> "ok", codec |-> "zstd",
            adata |-> SubSeq(compressed, Len(ZstdMagic) + 1, Len(compressed))]
    ELSE IF StartsWith(compressed, DeflateHead)
      THEN [st |-> "ok", codec |-> "deflate",
            adata |-> SubSeq(compressed, Len(DeflateHead) + 1, Len(compressed))]
    ELSE [st |-> "Decompress", codec |-> "deflate", adata |-> <<>>]

\* read_from once the payload is decompressed (crx.rs 124-152).
ReadDecoded(h, compressed, d) ==
    IF d.st # "ok" THEN [st |-> d.st, crx |-> NoCrx, codec |-> d.codec]
    ELSE [st |-> read_from(h, compressed, d.adata).st,
          crx |-> read_from(h, compressed, d.adata).crx,
          codec |-> d.codec]

\* The payload at pos (crx.rs 109-117): the rest of the stream, or the
\* bytes counted by the size word in front of them.
ReadPayload(h, f, pos) ==
    IF ~HasSizeField(h.flags)
      THEN ReadDecoded(h, SubSeq(f, pos + 1, Len(f)),
                       Decompress(SubSeq(f, pos + 1, Len(f))))
    ELSE IF Len(f) < pos + 4 THEN ReadErr("UnexpectedEof")
    ELSE IF read_i32(f, pos) < 0 \/ Len(f) < pos + 4 + read_i32(f, pos)
      THEN ReadErr("UnexpectedEof")
    ELSE ReadDecoded(h, SubSeq(f, pos + 5, pos + 4 + read_i32(f, pos)),
                     Decompress(SubSeq(f, pos + 5, pos + 4 + read_i32(f, pos))))

\* The header record with the clip table read.
HeaderWith(h, clips) ==
    [inner_x |-> h.inner_x, inner_y |-> h.inner_y, width |-> h.width,
     height |-> h.height, version |-> h.version, flags |-> h.flags,
     bpp |-> h.bpp, unknown |-> h.unknown, clips |-> clips]

\* The clip table at pos (crx.rs 88-108), present from version 3 on; a
\* count below 1 reads no record.
ReadClips(h, f, pos) ==
    IF h.version < 3 THEN ReadPayload(HeaderWith(h, <<>>), f, pos)
    ELSE IF Len(f) < pos + 4 THEN ReadErr("UnexpectedEof")
    ELSE IF Len(f) < pos + 4 + ClipBytes * Max(read_i32(f, pos), 0)
      THEN ReadErr("UnexpectedEof")
    ELSE ReadPayload(
            HeaderWith(h, [i \in 1 .. read_i32(f, pos) |->
                              read_clip(f, pos + 4 + ClipBytes * (i - 1))]),
            f, pos + 4 + ClipBytes * Max(read_i32(f, pos), 0))

\* The eight header words after the magic (crx.rs 70-77).
HeaderWords(f) ==
    [inner_x |-> read_i16(f, 4), inner_y |-> read_i16(f, 6),
     width |-> read_i16(f, 8), height |-> read_i16(f, 10),
     version |-> read_i16(f, 12), flags |-> read_i16(f, 14),
     bpp |-> read_i16(f, 16), unknown |-> read_i16(f, 18)]

\* A validation that tests the whole flags word.
ValidateWholeFlags(h) ==
    IF h.version # 2 /\ h.version # 3 THEN "UnsupportedVersion"
    ELSE IF h.flags > 1 THEN "UnsupportedFlags"
    ELSE IF h.bpp # 0 /\ h.bpp # 1 THEN "UnsupportedBpp"
    ELSE "ok"

\* The tests of the header words (crx.rs 78-86), in the order of the code.
Validate(h) ==
    IF h.version # 2 /\ h.version # 3 THEN "UnsupportedVersion"
    ELSE IF LowNibble(h.flags) > 1 THEN "UnsupportedFlags"
    ELSE IF h.bpp # 0 /\ h.bpp # 1 THEN "UnsupportedBpp"
    ELSE "ok"

\* Crx::read_from on the stream f, whose length the caller supplies as
\* the length of f: st is "ok" or the failure, crx the value returned,
\* codec the decompressor chosen.
read_stream(f) ==
    IF Len(f) < 4 THEN ReadErr("UnexpectedEof")
    ELSE IF read_i32(f, 0) # MAGIC THEN ReadErr("InvalidMagic")
    ELSE IF Len(f) < 20 THEN ReadErr("UnexpectedEof")
    ELSE IF Validate(HeaderWords(f)) # "ok" THEN ReadErr(Validate(HeaderWords(f)))
    ELSE ReadClips(HeaderWords(f), f, 20)

\* Crx::write_to: the bytes written.
write_to(self) ==
    write_i32(MAGIC) \o write_i16(self.inner_x) \o write_i16(self.inner_y)
        \o write_i16(self.width) \o write_i16(self.height)
        \o write_i16(self.version) \o write_i16(WithSizeField(self.flags))
        \o write_i16(self.bpp) \o write_i16(self.unknown)
        \o (IF self.version >= 3
              THEN write_i32(Len(self.clips)) \o write_clips(self.clips, 1)
              ELSE <<>>)
        \o write_i32(Len(self.compressed_data)) \o self.compressed_data

-----------------------------------------------------------------------------
(* The parts of the state a command does not use. *)

NoArchive ==
    [st |-> "none", file_headers |-> <<>>, files |-> <<>>, name |-> <<>>]
NoPlan == [kind |-> "none", count |-> 0, name_len |-> 0, size |-> 0, writes |-> 0]
NoSub == SubReader([name |-> <<>>, offset |-> 0, size |-> 0])
NoRet == [op |-> "none", st |-> "none", n |-> 0, bytes |-> <<>>, from |-> 0,
          whence |-> "none", off |-> [ext |-> "none", n |-> 0], buf_len |-> 0]

CrxIdle ==
    /\ pc = "idle"
    /\ hdr = [inner_x |-> 0, inner_y |-> 0, width |-> 0, height |-> 0,
              version |-> 0, flags |-> 0, bpp |-> 0, unknown |-> 0, clips |-> <<>>]
    /\ adata = <<>>
    /\ crx = NoCrx
    /\ enc = NoEnc
    /\ redec = NoDec
    /\ outcome = "none"
    /\ stream = <<>>
    /\ saved = <<>>
    /\ codec = "none"

PckIdle ==
    /\ wpc = "idle"
    /\ plan = NoPlan
    /\ file = <<>>
    /\ file_headers = <<>>
    /\ header_max_size = 0
    /\ written = <<>>
    /\ archive = NoArchive

SubIdle ==
    /\ sub = NoSub
    /\ ret = NoRet
    /\ sub2 = NoSub
    /\ source_pos = 0

-----------------------------------------------------------------------------
(* Export then import of the same pixels: read_from, the encode call of     *)
(* import_png on the decoded pixels, and decode_image on its output.        *)

Init ==
    /\ pc = "start"
    /\ build \in BOOLEAN
    /\ hdr \in Headers
    /\ adata \in StreamSet(hdr.width, PixelSize(hdr.bpp), hdr.height)
    /\ crx = NoCrx
    /\ enc = NoEnc
    /\ redec = NoDec
    /\ outcome = "none"
    /\ stream = <<>>
    /\ saved = <<>>
    /\ codec = "none"
    /\ PckIdle
    /\ SubIdle

ReadFrom ==
    /\ pc = "start"
    /\ \E r \in {read_from(hdr, DeflateFrame(adata), adata)} :
           /\ crx' = r.crx
           /\ outcome' = r.st
           /\ pc' = IF r.st = "ok" THEN "read" ELSE "read_failed"
    /\ UNCHANGED <<build, hdr, adata, enc, redec, stream, saved, codec, pckVars, subVars>>

Reencode ==
    /\ pc = "read"
    /\ \E e \in {encode_for(crx, crx.data, build)} :
           /\ enc' = e
           /\ outcome' = e.st
           /\ pc' = IF e.st = "ok" THEN "reencoded" ELSE "reencode_failed"
    /\ UNCHANGED <<build, hdr, adata, crx, redec, stream, saved, codec, pckVars, subVars>>

Redecode ==
    /\ pc = "reencoded"
    /\ \E r \in {decode_image(Zeros(crx.width * crx.height * PixelSize(crx.bpp)),
                              enc.dst, crx.width, crx.height, PixelSize(crx.bpp))} :
           /\ redec' = r
           /\ outcome' = r.st
           /\ pc' = "redecoded"
    /\ UNCHANGED <<build, hdr, adata, crx, enc, stream, saved, codec, pckVars, subVars>>

Next == ReadFrom \/ Reencode \/ Redecode

Spec == Init /\ [][Next]_vars

-----------------------------------------------------------------------------
(* Crx::import_png *)

RECURSIVE rgba_to_rgb(_)
rgba_to_rgb(src) ==
    IF Len(src) < 4 THEN <<>>
    ELSE <<src[1], src[2], src[3]>> \o rgba_to_rgb(SubSeq(src, 5, Len(src)))

RECURSIVE rgb_to_rgba(_)
rgb_to_rgba(src) ==
    IF Len(src) < 3 THEN <<>>
    ELSE <<src[1], src[2], src[3], 255>> \o rgb_to_rgba(SubSeq(src, 4, Len(src)))

\* What the PNG library hands to import_png: the header info, the frame
\* (Pattern(seed, size)), and the step at which the library or the
\* compressor reports an error, if any.
ImportFails == {"none", "open", "header", "info", "frame", "compress"}

PngInputs(self) ==
    [width : {self.width, self.width + 1}, height : {self.height, self.height + 1},
     bit_depth : {8, 16}, color_type : {"Rgb", "Rgba", "Grayscale"},
     seed : PatSeeds, fail : ImportFails]

\* The pixel buffer import_png builds from the frame (crx.rs 202-214).
ImportPixels(self, png) ==
    LET frame == Pattern(png.seed, self.width * self.height
                                   * (IF png.color_type = "Rgb" THEN 3 ELSE 4))
    IN  IF self.bpp = 0 /\ png.color_type = "Rgba" THEN rgba_to_rgb(frame)
        ELSE IF self.bpp = 1 /\ png.color_type = "Rgb" THEN rgb_to_rgba(frame)
        ELSE frame

\* The checks of import_png before the frame is read (crx.rs 171-199): the
\* error returned, or "none".
ImportReject(self, png) ==
    IF png.fail \in {"open", "header"} THEN "Io"
    ELSE IF png.width # self.width THEN "WidthMismatch"
    ELSE IF png.height # self.height THEN "HeightMismatch"
    ELSE IF png.bit_depth # 8 THEN "BitDepthMismatch"
    ELSE IF png.color_type \notin {"Rgb", "Rgba"} THEN "ColorTypeMismatch"
    ELSE IF png.fail \in {"info", "frame"} THEN "Io"
    ELSE "none"

\* A variant that stores the new pixels before the re-encode and the
\* compression have succeeded.
ImportStoreEarly(self, png, rej, data, edata) ==
    IF rej # "none" THEN [st |-> rej, crx |-> self]
    ELSE IF edata.st # "ok"
      THEN [st |-> edata.st, crx |-> [self EXCEPT !.data = data]]
    ELSE IF png.fail = "compress"
      THEN [st |-> "Io", crx |-> [self EXCEPT !.data = data]]
    ELSE [st |-> "ok",
          crx |-> [self EXCEPT !.data = data,
                               !.compressed_data = compress_data(edata.dst)]]

\* The end of import_png (crx.rs 215-223): rej is the outcome of the checks,
\* data the new pixels, edata the result of the encoder.  Both fields are
\* assigned after the last fallible step.
ImportStore(self, png, rej, data, edata) ==
    IF rej # "none" THEN [st |-> rej, crx |-> self]
    ELSE IF edata.st # "ok" THEN [st |-> edata.st, crx |-> self]
    ELSE IF png.fail = "compress" THEN [st |-> "Io", crx |-> self]
    ELSE [st |-> "ok",
          crx |-> [self EXCEPT !.data = data,
                               !.compressed_data = compress_data(edata.dst)]]

\* st is "ok", the error returned, or "panic"; crx is the Crx value after
\* the call.
import_png(self, png, checked) ==
    ImportStore(self, png, ImportReject(self, png), ImportPixels(self, png),
                encode_for(self, ImportPixels(self, png), checked))

InitImport ==
    /\ pc = "start"
    /\ build \in BOOLEAN
    /\ hdr \in Headers
    /\ adata \in ImportStreamSet(hdr.width, PixelSize(hdr.bpp), hdr.height)
    /\ crx = NoCrx
    /\ enc = NoEnc
    /\ redec = NoDec
    /\ outcome = "none"
    /\ stream = <<>>
    /\ saved = <<>>
    /\ codec = "none"
    /\ PckIdle
    /\ SubIdle

ImportPng ==
    /\ pc = "read"
    /\ \E png \in PngInputs(crx) :
         \E r \in {import_png(crx, png, build)} :
             /\ crx' = r.crx
             /\ outcome' = r.st
             /\ pc' = CASE r.st = "ok" -> "imported"
                        [] r.st = "panic" -> "import_aborted"
                        [] OTHER -> "import_failed"
    /\ UNCHANGED <<build, hdr, adata, enc, redec, stream, saved, codec, pckVars, subVars>>

NextImport == ReadFrom \/ ImportPng

SpecImport == InitImport /\ [][NextImport]_vars

-----------------------------------------------------------------------------
(* Reading a CRX stream from its bytes and saving it again.                 *)

\* The bytes of a stream with the magic, the header words of h, the clip
\* count word, the payload and what follows the payload.
StreamBytes(c) ==
    write_i32(c.magic) \o write_i16(c.h.inner_x) \o write_i16(c.h.inner_y)
        \o write_i16(c.h.width) \o write_i16(c.h.height)
        \o write_i16(c.h.version) \o write_i16(c.h.flags)
        \o write_i16(c.h.bpp) \o write_i16(c.h.unknown)
        \o (IF c.h.version >= 3
              THEN write_i32(c.count) \o write_clips(c.h.clips, 1) ELSE <<>>)
        \o (IF HasSizeField(c.h.flags) THEN write_i32(Len(c.compressed)) ELSE <<>>)
        \o c.compressed \o c.tail

ClipA ==
    [field_0 |-> -2, field_4 |-> 1, field_6 |-> -1, field_8 |-> 258,
     field_a |-> 0, field_c |-> 32767, field_e |-> -32768]
ClipB ==
    [field_0 |-> 65536, field_4 |-> 0, field_6 |-> 2, field_8 |-> 3,
     field_a |-> 4, field_c |-> 5, field_e |-> 6]

HeaderOf(width, height, version, flags, bpp, clips) ==
    [inner_x |-> 3, inner_y |-> -4, width |-> width, height |-> height,
     version |-> version, flags |-> flags, bpp |-> bpp, unknown |-> 258,
     clips |-> clips]

StreamCase(magic, h, count, inner, compressed, tail) ==
    [magic |-> magic, h |-> h, count |-> count, adata |-> inner,
     compressed |-> compressed, tail |-> tail]

\* Headers of a one-pixel image with every field right or wrong.
Magics == {MAGIC, MAGIC - 1, 0}
Versions == 1 .. 4
FlagWords == {0, 1, 2, 15, 16, 17, 18, -16, -1}
Bpps == -1 .. 2

HeaderCases ==
    {StreamCase(magic, HeaderOf(1, 1, version, flags, bpp, <<>>), 0,
                <<0>> \o Pattern(1, PixelSize(bpp)),
                DeflateFrame(<<0>> \o Pattern(1, PixelSize(bpp))), <<>>) :
        magic \in Magics, version \in Versions, flags \in FlagWords, bpp \in Bpps}

\* Streams cut inside the header.
CutLens == {0, 3, 4, 19}
CutCases ==
    {StreamCase(MAGIC, HeaderOf(1, 1, 2, 0, 0, <<>>), 0, <<>>, <<>>, <<>>)}

\* Valid headers with each shape of clip table, payload frame and tail.
Dims == {<<1, 1, 0>>, <<2, 1, 0>>, <<2, 1, 1>>, <<1, 2, 1>>, <<2, 2, 0>>}
ClipTables == {<<2, 0, <<>>>>, <<3, 0, <<>>>>, <<3, 1, <<ClipA>>>>,
               <<3, 2, <<ClipA, ClipB>>>>, <<3, -1, <<>>>>}
PayloadFlags == {0, 1, 16, 17}
Tails(flags) == IF HasSizeField(flags) THEN {<<>>, <<7>>} ELSE {<<>>}

PayloadCasesOf(d) ==
    {StreamCase(MAGIC, HeaderOf(d[1], d[2], t[1], flags, d[3], t[3]), t[2],
                a, IF zstd THEN compress_data(a) ELSE DeflateFrame(a), tail) :
        t \in ClipTables, flags \in PayloadFlags,
        a \in ImportStreamSet(d[1], PixelSize(d[3]), d[2]),
        zstd \in BOOLEAN, tail \in {<<>>, <<7>>}}

PayloadCases == UNION {PayloadCasesOf(d) : d \in Dims}

\* Payloads that are no frame of either kind or too short to tell, and
\* one frame of each kind; each with the bytes it holds.
OddPayloads ==
    {<<<<>>, <<>>>>, <<<<120>>, <<>>>>, <<<<40, 181, 47>>, <<>>>>,
     <<<<40, 181, 47, 252, 0, 1, 2, 3>>, <<>>>>,
     <<<<40, 181, 120, 156, 0, 1, 2, 3>>, <<>>>>,
     <<<<120, 156, 0, 1, 2, 3>>, <<0, 1, 2, 3>>>>,
     <<<<40, 181, 47, 253, 0, 1, 2, 3>>, <<0, 1, 2, 3>>>>}
OddCases ==
    {StreamCase(MAGIC, HeaderOf(1, 1, 2, flags, 0, <<>>), 0, p[2], p[1], <<>>) :
        flags \in {0, 16}, p \in OddPayloads}

\* The 2x1 RGB image of one mode-0 row: the literal pixel B=0x80, G=0, R=0
\* and the differences dB=0x40, dG=0, dR=0x20.
ExampleRow0 == <<0, 128, 0, 0, 64, 0, 32>>
ExampleCases ==
    {StreamCase(MAGIC, HeaderOf(2, 1, 2, 0, 0, <<>>), 0, ExampleRow0,
                DeflateFrame(ExampleRow0), <<>>)}

InitStream ==
    /\ pc = "start"
    /\ build = FALSE
    /\ \/ \E c \in HeaderCases \cup OddCases \cup ExampleCases :
              /\ stream = StreamBytes(c)
              /\ hdr = c.h
              /\ adata = c.adata
       \/ \E c \in PayloadCases :
              /\ c.tail \in Tails(c.h.flags)
              /\ stream = StreamBytes(c)
              /\ hdr = c.h
              /\ adata = c.adata
       \/ \E c \in CutCases, n \in CutLens :
              /\ stream = SubSeq(StreamBytes(c), 1, n)
              /\ hdr = c.h
              /\ adata = c.adata
    /\ crx = NoCrx
    /\ enc = NoEnc
    /\ redec = NoDec
    /\ outcome = "none"
    /\ saved = <<>>
    /\ codec = "none"
    /\ PckIdle
    /\ SubIdle

\* Crx::read_from on the stream.
ReadStream ==
    /\ pc = "start"
    /\ \E r \in {read_stream(stream)} :
           /\ crx' = r.crx
           /\ outcome' = r.st
           /\ codec' = r.codec
           /\ pc' = CASE r.st = "ok" -> "read"
                      [] r.st = "panic" -> "read_aborted"
                      [] OTHER -> "read_failed"
    /\ UNCHANGED <<build, hdr, adata, enc, redec, stream, saved, pckVars, subVars>>

\* Crx::write_to of the value just read.
WriteTo ==
    /\ pc = "read"
    /\ saved' = write_to(crx)
    /\ pc' = "saved"
    /\ UNCHANGED <<build, hdr, adata, crx, enc, redec, outcome, stream, codec,
                   pckVars, subVars>>

NextStream == ReadStream \/ WriteTo

SpecStream == InitStream /\ [][NextStream]_vars

-----------------------------------------------------------------------------
(* Authoring an archive with PckWriter: add_file, writes to the entry just  *)
(* added, write_header, and reading the file back.                          *)

MaxFiles == 30      \* entries added to one writer
MaxWrites == 2      \* write calls on the entries of one writer

\* The sizes of the buffers handed to PckFileWriter::write.
WriteSizes == {1, BlockSize}

\* The name of entry i, of len bytes: distinct for distinct i.
EntryName(i, len) ==
    [k \in 1 .. len |-> IF k = 1 THEN 64 + i ELSE 97 + (k % 26)]

\* len payload bytes for entry i that follow the start bytes already there;
\* no byte is 0, the byte of a hole.
Payload(i, start, len) ==
    [k \in 1 .. len |-> ((i * 7 + start + k) % 251) + 1]

Writer == [file |-> file, file_headers |-> file_headers,
           header_max_size |-> header_max_size]

SetWriter(w) ==
    /\ file' = w.file
    /\ file_headers' = w.file_headers
    /\ header_max_size' = w.header_max_size

InitWriter ==
    /\ CrxIdle
    /\ build = FALSE
    /\ SubIdle
    /\ wpc = "open"
    /\ plan = [NoPlan EXCEPT !.kind = "writer", !.name_len = 5,
                             !.writes = MaxWrites]
    /\ file = <<>>
    /\ file_headers = <<>>
    /\ header_max_size = BlockSize
    /\ written = <<>>
    /\ archive = NoArchive

AddFile ==
    /\ wpc = "open"
    /\ Len(file_headers) < MaxFiles
    /\ SetWriter(add_file(Writer, EntryName(Len(file_headers) + 1, plan.name_len)))
    /\ written' = Append(written, <<>>)
    /\ UNCHANGED <<crxVars, subVars, wpc, plan, archive>>

Write ==
    /\ wpc = "open"
    /\ Len(file_headers) > 0
    /\ plan.writes > 0
    /\ \E n \in WriteSizes :
         \E buf \in {Payload(Len(file_headers), Len(written[Len(written)]), n)} :
            /\ SetWriter(PckFileWrite(Writer, buf))
            /\ written' = [written EXCEPT ![Len(written)] = @ \o buf]
    /\ plan' = [plan EXCEPT !.writes = @ - 1]
    /\ UNCHANGED <<crxVars, subVars, wpc, archive>>

WriteHeader ==
    /\ wpc = "open"
    /\ \E r \in {write_header(Writer)} :
          /\ SetWriter(r.w)
          /\ wpc' = IF r.st = "ok" THEN "closed" ELSE "failed"
    /\ UNCHANGED <<crxVars, subVars, plan, written, archive>>

Unpack ==
    /\ wpc = "closed"
    /\ archive' = unpack(file)
    /\ wpc' = "unpacked"
    /\ UNCHANGED <<crxVars, subVars, plan, file, file_headers, header_max_size,
                   written>>

NextWriter == AddFile \/ Write \/ WriteHeader \/ Unpack

SpecWriter == InitWriter /\ [][NextWriter]_vars

-----------------------------------------------------------------------------
(* pack then unpack (src/src/main.rs). *)

\* The lengths of the names and of the first file of a packed directory.
PackNameLens == {1, NameField - 1, NameField, NameField + 1}
PackSizes == {0, 1, CopyBuf + 1}

\* pack is given a directory of count files or a single file.
PackPlans ==
    [kind : {"dir"}, count : 0 .. MaxFiles, name_len : PackNameLens,
     size : PackSizes, writes : {0}]
    \cup [kind : {"file"}, count : {1}, name_len : PackNameLens,
          size : PackSizes, writes : {0}]

\* The files of a plan: the first has plan.size bytes, the others 0 .. 2.
PlanFiles(p) ==
    [i \in 1 .. p.count |->
        [name |-> EntryName(i, p.name_len),
         bytes |-> Payload(i, 0, IF i = 1 THEN p.size ELSE i % 3)]]

\* std::io::copy into the writer add_file returned: one write per buffer.
RECURSIVE CopyIn(_, _, _)
CopyIn(w, data, pos) ==
    IF pos >= Len(data) THEN w
    ELSE CopyIn(PckFileWrite(w, SubSeq(data, pos + 1, Min(pos + CopyBuf, Len(data)))),
                data, pos + CopyBuf)

\* The loop of pack over the files: add_file, then the copy.
RECURSIVE PackFiles(_, _, _)
PackFiles(w, files, i) ==
    IF i > Len(files) THEN w
    ELSE PackFiles(CopyIn(add_file(w, files[i].name), files[i].bytes, 0),
                   files, i + 1)

\* pack: st and the writer when it returns.
pack(p) ==
    write_header(
        PackFiles(PckWriterNew(<<>>, IF p.kind = "dir"
                                       THEN calculate_header_size(p.count)
                                       ELSE BlockSize),
                  PlanFiles(p), 1))

InitPack ==
    /\ CrxIdle
    /\ build = FALSE
    /\ SubIdle
    /\ wpc = "pack"
    /\ plan \in PackPlans
    /\ file = <<>>
    /\ file_headers = <<>>
    /\ header_max_size = 0
    /\ written = <<>>
    /\ archive = NoArchive

Pack ==
    /\ wpc = "pack"
    /\ \E r \in {pack(plan)} :
          /\ SetWriter(r.w)
          /\ wpc' = IF r.st = "ok" THEN "closed" ELSE "failed"
    /\ written' = [i \in 1 .. plan.count |-> PlanFiles(plan)[i].bytes]
    /\ UNCHANGED <<crxVars, subVars, plan, archive>>

NextPack == Pack \/ Unpack

SpecPack == InitPack /\ [][NextPack]_vars

-----------------------------------------------------------------------------
(* Reading one entry of an archive through PckFileReaderMut: read, seek     *)
(* and rewind in any order.                                                 *)

MaxSize == 3        \* largest size of the entry read
MaxBuf == 4         \* largest buffer handed to read

\* The source: the entry's bytes lie between the bytes of its neighbours;
\* the shorter source ends inside the entry (a truncated archive).
SubSources == {Payload(1, 0, 2 * MaxSize + 2), Payload(1, 0, MaxSize + 1)}

SubHeaders ==
    [name : {EntryName(1, 1)}, offset : {0, 2}, size : 0 .. MaxSize]

\* The arguments of seek: Start takes a u64, End and Current an i64.
SeekOffsets(whence) ==
    IF whence = "Start"
      THEN [ext : {"none"}, n : 0 .. MaxSize + 1] \cup {[ext |-> "max", n |-> 0]}
    ELSE [ext : {"none"}, n : (0 - MaxSize - 1) .. (MaxSize + 1)]
         \cup {[ext |-> "max", n |-> 0], [ext |-> "min", n |-> 0]}

\* The value the offset of a seek is counted from.
SeekBase(s, whence) ==
    CASE whence = "Start" -> 0
      [] whence = "End" -> s.header.size
      [] whence = "Current" -> s.pos

InitSub ==
    /\ CrxIdle
    /\ build \in BOOLEAN
    /\ wpc = "reading"
    /\ plan = NoPlan
    /\ file \in SubSources
    /\ file_headers = <<>>
    /\ header_max_size = 0
    /\ written = <<>>
    /\ archive = NoArchive
    /\ sub \in {SubReader(h) : h \in SubHeaders}
    /\ ret = NoRet
    /\ sub2 = NoSub
    /\ source_pos = 0

SubRead ==
    /\ wpc = "reading"
    /\ \E buf_len \in 0 .. MaxBuf :
         \E r \in {PckFileRead(file, sub, buf_len)} :
            /\ sub' = r.sub
            /\ ret' = [NoRet EXCEPT !.op = "read", !.st = "ok", !.n = Len(r.bytes),
                                    !.bytes = r.bytes,
                                    !.from = sub.header.offset + sub.pos]
            /\ source_pos' = PckFileReadShared(file, source_pos, sub,
                                                buf_len).source_pos
    /\ UNCHANGED <<crxVars, pckVars, sub2>>

SubSeek ==
    /\ wpc = "reading"
    /\ \E whence \in {"Start", "End", "Current"} :
         \E off \in SeekOffsets(whence) :
           \E r \in {PckFileSeek(sub, whence, off, build)} :
              /\ sub' = r.sub
              /\ ret' = [op |-> "seek", st |-> r.st, n |-> r.n, bytes |-> <<>>,
                         from |-> SeekBase(sub, whence), whence |-> whence,
                         off |-> off, buf_len |-> 0]
              /\ wpc' = IF r.st = "panic" THEN "aborted" ELSE wpc
    /\ UNCHANGED <<crxVars, plan, file, file_headers, header_max_size, written,
                   archive, sub2, source_pos>>

SubRewind ==
    /\ wpc = "reading"
    /\ sub' = PckFileRewind(sub)
    /\ ret' = [NoRet EXCEPT !.op = "rewind", !.st = "ok"]
    /\ UNCHANGED <<crxVars, pckVars, sub2, source_pos>>

NextSub == SubRead \/ SubSeek \/ SubRewind

SpecSub == InitSub /\ [][NextSub]_vars

-----------------------------------------------------------------------------
(* Two PckFileReaderMut of one PckFileReaderMutIter, which hold the same    *)
(* source, read in any order.                                               *)

InitShared ==
    /\ CrxIdle
    /\ build = FALSE
    /\ wpc = "sharing"
    /\ plan = NoPlan
    /\ file \in SubSources
    /\ file_headers = <<>>
    /\ header_max_size = 0
    /\ written = <<>>
    /\ archive = NoArchive
    /\ sub \in {SubReader(h) : h \in SubHeaders}
    /\ sub2 \in {SubReader(h) : h \in SubHeaders}
    /\ ret = NoRet
    /\ source_pos = 0

\* A read on the first reader.
ReadFirst ==
    /\ wpc = "sharing"
    /\ \E buf_len \in 0 .. MaxBuf :
         \E r \in {PckFileReadShared(file, source_pos, sub, buf_len)} :
            /\ sub' = r.sub
            /\ source_pos' = r.source_pos
            /\ ret' = [NoRet EXCEPT !.op = "read", !.st = "ok", !.n = Len(r.bytes),
                                    !.bytes = r.bytes, !.from = source_pos,
                                    !.buf_len = buf_len]
    /\ UNCHANGED <<crxVars, pckVars, sub2>>

\* A read on the second reader.
ReadSecond ==
    /\ wpc = "sharing"
    /\ \E buf_len \in 0 .. MaxBuf :
         \E r \in {PckFileReadShared(file, source_pos, sub2, buf_len)} :
            /\ sub2' = r.sub
            /\ source_pos' = r.source_pos
            /\ ret' = [NoRet EXCEPT !.op = "read2", !.st = "ok", !.n = Len(r.bytes),
                                    !.bytes = r.bytes, !.from = source_pos,
                                    !.buf_len = buf_len]
    /\ UNCHANGED <<crxVars, pckVars, sub>>

NextShared == ReadFirst \/ ReadSecond

SpecShared == InitShared /\ [][NextShared]_vars

-----------------------------------------------------------------------------

(* Opening an archive with PckReader::new. *)

MaxCount == 2

\* Names of one byte, of the whole field, with bytes after the NUL, and
\* one that is not UTF-8.
ReaderNames ==
    {<<97>>, Repeat(<<98>>, NameField), <<99, 0, 255>>, <<255>>}

\* The records of the long table and what the short table adds to their
\* offset and size.
ReaderEntries ==
    [name : ReaderNames, offset : {BlockSize}, size : {1},
     doffset : {0, 1}, dsize : {0, 1}]

RECURSIVE ShortOf(_, _)
ShortOf(es, i) ==
    IF i > Len(es) THEN <<>>
    ELSE write_u32(es[i].offset + es[i].doffset)
            \o write_u32(es[i].size + es[i].dsize) \o ShortOf(es, i + 1)

RECURSIVE LongOf(_, _)
LongOf(es, i) ==
    IF i > Len(es) THEN <<>>
    ELSE write_cstring_with_size(es[i].name, NameField) \o write_u32(es[i].offset)
            \o write_u32(es[i].size) \o LongOf(es, i + 1)

ReaderFile(es) == write_u32(Len(es)) \o ShortOf(es, 1) \o LongOf(es, 1)

\* Lengths at which a file of count entries is cut: inside the count,
\* inside the short table, after the first name, inside the last record.
ReaderCuts(count) ==
    {n \in {3, 4 + 8 * count - 1, RecordPos(count, 0) + NameField,
            RecordPos(count, count) - 4} : n >= 0 /\ n < RecordPos(count, count)}

\* The reader as the state holds it: no file has been extracted.
ReaderOnly(r) ==
    [st |-> r.st, file_headers |-> r.file_headers, files |-> <<>>, name |-> r.name]

InitReader ==
    /\ CrxIdle
    /\ build = FALSE
    /\ SubIdle
    /\ wpc = "open"
    /\ plan = NoPlan
    /\ \E count \in 0 .. MaxCount :
         \E es \in [1 .. count -> ReaderEntries] :
           \E n \in ReaderCuts(count) \cup {RecordPos(count, count)} :
              file = SubSeq(ReaderFile(es), 1, n)
    /\ file_headers = <<>>
    /\ header_max_size = 0
    /\ written = <<>>
    /\ archive = NoArchive

\* PckReader::new
ReaderNew ==
    /\ wpc = "open"
    /\ \E r \in {PckReaderNew(file)} :
          /\ archive' = ReaderOnly(r)
          /\ wpc' = IF r.st = "ok" THEN "opened" ELSE "open_failed"
    /\ UNCHANGED <<crxVars, subVars, plan, file, file_headers, header_max_size,
                   written>>

\* PckReader::len
ReaderLen ==
    /\ wpc = "opened"
    /\ ret' = [NoRet EXCEPT !.op = "len", !.st = "ok",
                            !.n = Len(archive.file_headers)]
    /\ wpc' = "counted"
    /\ UNCHANGED <<crxVars, sub, sub2, source_pos, plan, file, file_headers,
                   header_max_size, written, archive>>

NextReader == ReaderNew \/ ReaderLen

SpecReader == InitReader /\ [][NextReader]_vars

-----------------------------------------------------------------------------
(* A writer created with a chosen reserved header: PckWriter::new with the  *)
(* size calculate_header_size gives for a count of files, as pack does, or  *)
(* with a given multiple of 0x800; then add_file and writes.                *)

MaxSized == 120     \* largest count a header is sized for

\* The least count for which file_count * 0x48 + 4 leaves u32.
BigCount == (1073741824 \div 18) + 1

\* The reserved sizes given to PckWriter::new directly.
GivenSizes == {0, BlockSize, 2 * BlockSize}

\* A writer sized for count files (a small count, 29000000 files, whose
\* header takes nearly 2^31 bytes, or BigCount), or created with the
\* reserved size given; the entries of the second kind are written to.
ReservePlans ==
    [kind : {"sized"}, count : (0 .. MaxSized) \cup {29000000, BigCount},
     name_len : {5}, size : {0}, writes : {0}]
    \cup [kind : {"given"}, count : {0}, name_len : {5}, size : GivenSizes,
          writes : {1}]

InitReserve ==
    /\ CrxIdle
    /\ SubIdle
    /\ plan \in ReservePlans
    /\ build \in (IF plan.count = BigCount THEN BOOLEAN ELSE {FALSE})
    /\ wpc = "new"
    /\ file = <<>>
    /\ file_headers = <<>>
    /\ header_max_size = 0
    /\ written = <<>>
    /\ archive = NoArchive

\* PckWriter::new_from_file(output, calculate_header_size(count)), or with
\* the size given.  A build with overflow checks aborts in
\* calculate_header_size when the index size leaves u32.
Create ==
    /\ wpc = "new"
    /\ IF plan.kind = "sized" /\ build /\ HeaderBytesOverflow(plan.count)
         THEN /\ wpc' = "aborted"
              /\ UNCHANGED <<file, file_headers, header_max_size>>
         ELSE /\ wpc' = "open"
              /\ SetWriter(PckWriterNew(<<>>,
                     IF plan.kind = "sized"
                       THEN calculate_header_size(plan.count)
                       ELSE plan.size))
    /\ UNCHANGED <<crxVars, subVars, plan, written, archive>>

NextReserve == Create \/ AddFile \/ Write

SpecReserve == InitReserve /\ [][NextReserve]_vars

-----------------------------------------------------------------------------
(* Properties of the codec. *)

\* The stream adata holds exactly the rows of the image: decode_image has
\* consumed it to its end.
WholeStream ==
    DecodeRows(RowState(Zeros(hdr.width * hdr.height * PixelSize(hdr.bpp)), 0),
               adata, hdr.width, hdr.height, PixelSize(hdr.bpp), 0, 0).src_p
        = Len(adata)

\* C1 (as claimed): for every stream decode_image accepts, encoding the
\* decoded pixels with the recorded row modes succeeds and decoding the
\* result gives the decoded pixels again.
C1_RoundTrip ==
    (pc = "reencode_failed" => FALSE)
    /\ (pc = "redecoded" => redec.st = "ok" /\ redec.dst = crx.data)

\* C7 (as claimed): the post-decode channel reorder applied twice to a pixel
\* buffer gives the buffer back, for 3-byte and for 4-byte pixels.
C7_ReorderInvolution ==
    pc = "read" =>
        Reorder(Reorder(crx.data, PixelSize(crx.bpp)), PixelSize(crx.bpp)) = crx.data

\* C7 (amended): applied twice, the reorder gives a buffer of 3-byte pixels
\* back; of a 4-byte pixel (a,b,g,r) it makes (255 - a, b, g, 255 - r).
C7_ReorderTwice ==
    pc = "read" =>
        Reorder(Reorder(crx.data, PixelSize(crx.bpp)), PixelSize(crx.bpp))
          = [i \in 1 .. Len(crx.data) |->
               IF crx.bpp = 1 /\ (i - 1) % 4 \in {0, 3} THEN 255 - crx.data[i]
               ELSE crx.data[i]]

C7_Witness == pc = "read" /\ crx.bpp = 1 /\ crx.width = MaxW /\ crx.height = MaxH

\* C8 (as claimed): for a stream of exactly height rows, encoding the decoded
\* pixels with the recorded row modes succeeds and gives the stream back,
\* byte for byte and of the same length.
C8_ByteIdentical ==
    (pc \in {"reencode_failed", "reencoded"} /\ WholeStream)
        => (enc.st = "ok" /\ enc.dst = adata)

\* C10: an import that returns an error (or aborts) leaves the Crx value as
\* it was; the value changes only in a successful import, and then only its
\* pixels and its compressed payload.
C10_FailedImportKeepsCrx ==
    [][pc = "read" =>
         /\ (pc' \in {"import_failed", "import_aborted"} => crx' = crx)
         /\ (crx' # crx =>
               /\ pc' = "imported"
               /\ crx' = [crx EXCEPT !.data = crx'.data,
                                     !.compressed_data = crx'.compressed_data]
               /\ StartsWith(crx'.compressed_data, ZstdMagic))]_vars

C10_Witness ==
    pc = "import_failed" /\ outcome \in {"WidthMismatch", "HeightMismatch"}
    /\ crx.valid /\ crx.width > 0

-----------------------------------------------------------------------------
(* Properties of the PCK writer. *)

\* The bytes the file holds in the payload range of entry h.
EntryBytes(f, h) == ReadAt(f, h.offset, h.size)

\* [offset, offset + size) of h has no byte below position end.
ClearOf(h, end) == h.size = 0 \/ h.offset >= end

\* The payload ranges of the entries hs do not meet.
RangesDisjoint(hs) ==
    \A i, j \in 1 .. Len(hs) :
        i < j => \/ hs[i].size = 0 \/ hs[j].size = 0
                 \/ hs[i].offset + hs[i].size <= hs[j].offset
                 \/ hs[j].offset + hs[j].size <= hs[i].offset

\* C3 (as claimed): once add_file has grown the header, the file holds at
\* every entry's [offset, offset + size) the bytes that were written to the
\* entry, whatever the length of the payload.
C3_GrowthKeepsBytes ==
    wpc = "open" /\ header_max_size > BlockSize =>
        \A i \in 1 .. Len(file_headers) :
            EntryBytes(file, file_headers[i]) = written[i]

\* C4 (as claimed): after write_header every payload range is disjoint from
\* every other and from the index, taken as the count field, a short table
\* of 8 * count bytes and a long table of 0x48 * count bytes.
C4_DisjointFromClaimedIndex ==
    wpc = "closed" =>
        /\ RangesDisjoint(file_headers)
        /\ \A i \in 1 .. Len(file_headers) :
              ClearOf(file_headers[i],
                      4 + 8 * Len(file_headers) + EntrySize * Len(file_headers))

\* C4 (amended): the index write_header writes is the count field, a short
\* table of 8 * count bytes and a long table of 0x40 * count bytes,
\* 0x48 * count + 4 bytes in all; every payload range is disjoint from
\* every other and from the index, and write_header leaves the bytes of
\* every payload range as they were.
C4_DisjointFromIndex ==
    [][wpc = "open" /\ wpc' = "closed" =>
          /\ RangesDisjoint(file_headers')
          /\ Len(write_u32(0)) + Len(ShortTable(file_headers))
                + Len(LongTable(file_headers, 1))
               = EntrySize * Len(file_headers) + 4
          /\ \A i \in 1 .. Len(file_headers) :
                /\ ClearOf(file_headers'[i], EntrySize * Len(file_headers) + 4)
                /\ EntryBytes(file', file_headers'[i])
                     = EntryBytes(file, file_headers[i])]_vars

C4_Witness ==
    /\ wpc = "closed"
    /\ header_max_size > BlockSize
    /\ \E i, j \in 1 .. Len(file_headers) :
          i < j /\ file_headers[i].size > 0 /\ file_headers[j].size > 0

\* C5: after write_header the short and the long table in the file hold the
\* same (offset, size) for every entry, the first offset is the reserved
\* header size, and every next offset is the previous offset plus size.
C5_IndexConsistent ==
    wpc = "closed" =>
        /\ read_u32(file, 0) = Len(file_headers)
        /\ \A i \in 0 .. Len(file_headers) - 1 :
              /\ read_u32(file, 4 + 8 * i)
                   = read_u32(file, 4 + 8 * Len(file_headers)
                                      + i * (NameField + 8) + NameField)
              /\ read_u32(file, 8 + 8 * i)
                   = read_u32(file, 4 + 8 * Len(file_headers)
                                      + i * (NameField + 8) + NameField + 4)
              /\ i = 0 => read_u32(file, 4) = header_max_size
              /\ i > 0 => read_u32(file, 4 + 8 * i)
                            = read_u32(file, 4 + 8 * (i - 1))
                              + read_u32(file, 8 + 8 * (i - 1))

C5_Witness ==
    /\ wpc = "closed"
    /\ Len(file_headers) >= 3
    /\ read_u32(file, 4) = 2 * BlockSize
    /\ read_u32(file, 8) > 0
    /\ read_u32(file, 8 + 8 * (Len(file_headers) - 1)) > 0

\* C9 (as claimed): a writer created with a reserved header of 0x800 bytes
\* is not extended by the 29th nor by the 30th add_file.
C9_ThirtyUnextended ==
    Len(file_headers) <= 30 => header_max_size = BlockSize

\* C9 (amended): the writer is not extended while 28 entries are added; the
\* 29th add_file (29 * 0x48 + 4 = 0x82C >= 0x800) relocates once, the
\* reserved size becomes 0x1000 and every earlier entry's offset grows by
\* 0x800, sizes unchanged; the 30th add_file does not relocate.
C9_GrowthAtTwentyNine ==
    [][/\ Len(file_headers') <= 28 => header_max_size' = BlockSize
       /\ Len(file_headers') \in {29, 30} => header_max_size' = 2 * BlockSize
       /\ header_max_size' # header_max_size =>
             /\ Len(file_headers) = 28
             /\ Len(file_headers') = 29
             /\ \A i \in 1 .. 28 :
                   /\ file_headers'[i].offset = file_headers[i].offset + BlockSize
                   /\ file_headers'[i].size = file_headers[i].size]_vars

C9_Witness ==
    /\ Len(file_headers) = 30
    /\ header_max_size = 2 * BlockSize
    /\ file_headers[1].offset = 2 * BlockSize
    /\ file_headers[1].size > 0

-----------------------------------------------------------------------------
(* Properties of pack and unpack. *)

-----------------------------------------------------------------------------
(* Properties of the sub-file reader. *)

\* The last call was a seek to a position past the size of the entry.
SeekPastSize ==
    /\ ret.op = "seek"
    /\ \/ ret.off.ext = "max"
       \/ ret.off.ext = "none" /\ ret.from + ret.off.n > sub.header.size

\* C6 (as claimed): the cursor stays within 0 .. size; a read returns bytes
\* of the source positions inside [offset, offset + size) only, and no byte
\* when the cursor is at size; a seek past size fails with InvalidInput.
C6_ReadBounds ==
    /\ sub.pos >= 0 /\ sub.pos <= sub.header.size
    /\ ret.op = "read" =>
          /\ ret.from >= sub.header.offset
          /\ ret.from + ret.n <= sub.header.offset + sub.header.size
          /\ ret.bytes = SubSeq(file, ret.from + 1, ret.from + ret.n)
          /\ ret.from = sub.header.offset + sub.header.size => ret.n = 0
    /\ SeekPastSize => ret.st = "InvalidInput"

-----------------------------------------------------------------------------
(* The header of the stream read (SpecStream). *)

HeaderKinds ==
    {"InvalidMagic", "UnsupportedVersion", "UnsupportedFlags", "UnsupportedBpp"}

\* The failures the header words of the stream call for.
FailingKinds ==
    {k \in HeaderKinds :
        \/ k = "InvalidMagic" /\ read_i32(stream, 0) # MAGIC
        \/ k = "UnsupportedVersion" /\ read_i16(stream, 12) \notin {2, 3}
        \/ k = "UnsupportedFlags" /\ read_i16(stream, 14) % 16 > 1
        \/ k = "UnsupportedBpp" /\ read_i16(stream, 16) \notin {0, 1}}

\* C11: read_from fails and returns no Crx value when the magic is not
\* 0x47585243, the version is not 2 or 3, flags & 0x0F is above 1 or bpp
\* is not 0 or 1; the failure reported is the one of a field that fails
\* its test (so of that field when it alone fails); a header that passes
\* the four tests is not rejected with any of the four failures.
C11_HeaderValidation ==
    (pc # "start" /\ Len(stream) >= 20) =>
        /\ FailingKinds # {} =>
              /\ pc = "read_failed"
              /\ crx = NoCrx
              /\ outcome \in FailingKinds
        /\ FailingKinds = {} => outcome \notin HeaderKinds

\* A stream whose flags word alone fails its test was rejected for it.
C11_Witness ==
    /\ pc = "read_failed"
    /\ Len(stream) >= 20
    /\ FailingKinds = {"UnsupportedFlags"}
    /\ outcome = "UnsupportedFlags"
    /\ crx = NoCrx

-----------------------------------------------------------------------------
(* PckReader::new (SpecReader). *)

\* The count word of the file, and whether the file holds the short table
\* and the records 0 .. i of the long table.
FileCount == read_u32(file, 0)
HoldsRecord(i) == Len(file) >= 4 /\ Len(file) >= RecordPos(FileCount, i + 1)

PairsEqual(i) ==
    /\ ShortOffset(file, i) = LongOffset(file, FileCount, i)
    /\ ShortSize(file, i) = LongSize(file, FileCount, i)

\* Record i is the first whose pair differs from the short table.
FirstDiffers(i) ==
    /\ HoldsRecord(i)
    /\ i < FileCount
    /\ ~PairsEqual(i)
    /\ \A j \in 0 .. i - 1 : PairsEqual(j)

\* The reader was returned only for equal tables, and it exposes the
\* records of the long table in order.
ReaderExposesLong ==
    /\ archive.st = "ok" =>
          /\ \A i \in 0 .. FileCount - 1 : HoldsRecord(i) /\ PairsEqual(i)
          /\ Len(archive.file_headers) = FileCount
          /\ \A i \in 0 .. FileCount - 1 :
                archive.file_headers[i + 1]
                  = [name |-> LongName(file, FileCount, i),
                     offset |-> LongOffset(file, FileCount, i),
                     size |-> LongSize(file, FileCount, i)]
    /\ wpc = "counted" => ret.n = FileCount

\* C12 (as claimed): PckReader::new succeeds only if every pair of the
\* short table equals the pair of the same record of the long table; at
\* the first record whose pair differs it fails with an index mismatch
\* that names the record, and returns no reader; on success the reader
\* exposes exactly count entries, those of the long table in order.
C12_MismatchNamed ==
    wpc # "open" =>
        /\ ReaderExposesLong
        /\ \A i \in 0 .. MaxCount :
              FirstDiffers(i) =>
                  /\ archive.st = "IndexMismatch"
                  /\ archive.name = LongName(file, FileCount, i)
                  /\ archive.file_headers = <<>>

\* C12 (amended): the same, where the first record whose pair differs is
\* reported when the names of the records up to it are valid UTF-8.
C12_MismatchAfterNames ==
    wpc # "open" =>
        /\ ReaderExposesLong
        /\ \A i \in 0 .. MaxCount :
              (FirstDiffers(i) /\ \A j \in 0 .. i : Utf8(LongName(file, FileCount, j))) =>
                  /\ archive.st = "IndexMismatch"
                  /\ archive.name = LongName(file, FileCount, i)
                  /\ archive.file_headers = <<>>

\* The second record was the first to differ and was named.
C12_Witness ==
    /\ wpc = "open_failed"
    /\ archive.st = "IndexMismatch"
    /\ FirstDiffers(1)
    /\ archive.name = LongName(file, FileCount, 1)
    /\ Len(archive.name) = NameField

-----------------------------------------------------------------------------
(* Streams that end early or late (Spec). *)

\* Zeros enough for every read the decoder can make past the end of the
\* stream of a width x height image.
PadLen(width, height, pixel_size) == 3 * width * height * pixel_size + height + 3

\* The decoder reads past the end of src: with zeros appended, it takes
\* some of them.
Truncated(src, width, height, pixel_size) ==
    decode_image(Zeros(width * height * pixel_size),
                 src \o Zeros(PadLen(width, height, pixel_size)),
                 width, height, pixel_size).src_p > Len(src)

\* r is the result for the first n bytes of adata, which are a whole
\* stream; then the read of adata gave the same.
SameAsPrefix(r, n) ==
    (r.st = "ok" /\ r.src_p = n) =>
        /\ outcome = "ok"
        /\ crx.data = r.dst
        /\ crx.encode_type = r.encode_type

\* Bytes after the last row are ignored.
SurplusIgnored ==
    \A n \in 0 .. Len(adata) - 1 :
        SameAsPrefix(decode_image(Zeros(hdr.width * hdr.height * PixelSize(hdr.bpp)),
                                  SubSeq(adata, 1, n), hdr.width, hdr.height,
                                  PixelSize(hdr.bpp)), n)

\* C13: when the predictor stream ends before all rows are decoded, the
\* read fails with the error TruncatedPayload, returned as a value; when
\* bytes are left after the last row they are ignored and the read
\* succeeds.
C13_TruncatedIsError ==
    pc \in {"read", "read_failed"} =>
        /\ Truncated(adata, hdr.width, hdr.height, PixelSize(hdr.bpp)) =>
              /\ outcome = "TruncatedPayload"
              /\ pc = "read_failed"
        /\ SurplusIgnored

-----------------------------------------------------------------------------
(* Saving the value just read (SpecStream). *)

StreamVersion == read_i16(stream, 12)
StreamFlags == read_i16(stream, 14)
StreamSized == (StreamFlags \div 16) % 2 = 1
StreamClipCount == IF StreamVersion >= 3 THEN read_i32(stream, 20) ELSE 0

\* Where the clip table of the stream ends: the payload, or its size word.
PayloadAt ==
    IF StreamVersion >= 3 THEN 24 + ClipBytes * Max(StreamClipCount, 0) ELSE 20

\* The stream ends with its payload.
NoTail == StreamSized => Len(stream) = PayloadAt + 4 + read_i32(stream, PayloadAt)

\* C14 (as claimed): what write_to writes for a value just read from the
\* stream S is S byte for byte, except that bit 0x10 of the flags word is
\* set, whether S had the bit or not.
C14_ByteIdentical ==
    (pc = "saved" /\ StreamClipCount >= 0 /\ NoTail) =>
        saved = SubSeq(stream, 1, 14)
                  \o write_i16(IF StreamSized THEN StreamFlags ELSE StreamFlags + 16)
                  \o SubSeq(stream, 17, Len(stream))

\* C14 (amended): write_to writes the header words with bit 0x10 set in
\* flags, the clip table from version 3 on, the payload length and the
\* payload as read.  For a stream with the bit that is S byte for byte;
\* for a stream without it, S with the bit set and the four bytes of the
\* payload length put in front of the payload.
C14_ResaveWithLength ==
    (pc = "saved" /\ StreamClipCount >= 0 /\ NoTail) =>
        /\ StreamSized => saved = stream
        /\ ~StreamSized =>
              saved = SubSeq(stream, 1, 14) \o write_i16(StreamFlags + 16)
                        \o SubSeq(stream, 17, PayloadAt)
                        \o write_i32(Len(stream) - PayloadAt)
                        \o SubSeq(stream, PayloadAt + 1, Len(stream))
        /\ SubSeq(saved, Len(saved) - Len(crx.compressed_data) + 1, Len(saved))
             = crx.compressed_data

\* A version-3 stream with two clips and without bit 0x10 was saved.
C14_Witness ==
    /\ pc = "saved"
    /\ ~StreamSized
    /\ StreamVersion = 3
    /\ StreamClipCount = 2
    /\ Len(saved) = Len(stream) + 4

-----------------------------------------------------------------------------
(* PckFileReaderMut::seek (SpecSub). *)

\* The value the claim counts the offset of the seek just made from.
SeekOrigin ==
    CASE ret'.whence = "Start" -> 0
      [] ret'.whence = "End" -> sub.header.size
      [] ret'.whence = "Current" -> sub.pos

\* The new cursor of the seek just made is within 0 .. size.
SeekInRange ==
    /\ ret'.off.ext = "none"
    /\ SeekOrigin + ret'.off.n >= 0
    /\ SeekOrigin + ret'.off.n <= sub.header.size

\* C15: for Start(n), End(n) and Current(n) the new cursor is n, size + n
\* and cursor + n; the seek succeeds and sets the cursor iff the new
\* cursor is within 0 .. size, and otherwise fails with InvalidInput and
\* leaves the cursor where it was.
C15_SeekSemantics ==
    [][ret'.op = "seek" =>
          IF SeekInRange
            THEN /\ ret'.st = "ok"
                 /\ ret'.n = SeekOrigin + ret'.off.n
                 /\ sub'.pos = SeekOrigin + ret'.off.n
            ELSE /\ ret'.st = "InvalidInput"
                 /\ sub'.pos = sub.pos]_vars

-----------------------------------------------------------------------------
(* The rows of the image read (SpecStream). *)

\* Byte i (from 1) of the pixel buffer before the channel reorder, taken
\* back from the pixels: (r,g,b) -> (b,g,r), (r,g,b,x) -> (0xff - x,b,g,r).
Unreordered(data, pixel_size, i) ==
    IF pixel_size = 4 /\ (i - 1) % pixel_size = 0
      THEN 255 - data[i + 3]
      ELSE data[((i - 1) \div pixel_size) * pixel_size
                + (pixel_size - 1 - ((i - 1) % pixel_size)) + 1]

\* The rows before row y (from 0) are of the modes 0 .. 3, which take
\* width * pixel_size bytes each after the mode byte.
PlainBefore(y) == \A j \in 1 .. y : crx.encode_type[j] \in 0 .. 3

\* The position in adata (from 0) of the first byte after the mode byte
\* of row y, when PlainBefore(y).
RowSrc(y) == y * (crx.width * PixelSize(crx.bpp) + 1) + 1

\* The position in the buffer (from 0) of the first byte of row y.
RowDst(y) == y * crx.width * PixelSize(crx.bpp)

\* Row y holds its first pixel as read and every later byte as the sum of
\* the byte read and the byte one pixel to the left.
LeftPredicted(y) ==
    \A k \in 0 .. crx.width * PixelSize(crx.bpp) - 1 :
        Unreordered(crx.data, PixelSize(crx.bpp), RowDst(y) + k + 1)
          = IF k < PixelSize(crx.bpp) THEN adata[RowSrc(y) + k + 1]
            ELSE (adata[RowSrc(y) + k + 1]
                  + Unreordered(crx.data, PixelSize(crx.bpp),
                                RowDst(y) + k + 1 - PixelSize(crx.bpp))) % 256

\* C16: in a mode-0 row the first pixel is copied and every later byte k
\* is src[k] + dst[k - P] modulo 256, and the channels are reordered
\* afterwards; the 2x1 RGB image with the literal pixel B=0x80, G=0, R=0
\* and the differences 0x40, 0, 0x20 decodes to 00 00 80 20 00 C0.
C16_Mode0Decode ==
    pc \in {"read", "saved"} =>
        /\ \A y \in 0 .. crx.height - 1 :
              (crx.encode_type[y + 1] = 0 /\ PlainBefore(y)) => LeftPredicted(y)
        /\ (crx.width = 2 /\ crx.height = 1 /\ crx.bpp = 0
              /\ adata = <<0, 128, 0, 0, 64, 0, 32>>) =>
              crx.data = <<0, 0, 128, 32, 0, 192>>

\* The example image was read.
C16_Witness ==
    /\ pc = "read"
    /\ crx.width = 2 /\ crx.height = 1 /\ crx.bpp = 0
    /\ crx.encode_type = <<0>>
    /\ adata = <<0, 128, 0, 0, 64, 0, 32>>
    /\ crx.data = <<0, 0, 128, 32, 0, 192>>

-----------------------------------------------------------------------------
(* The decompressor chosen (SpecStream). *)

\* The compressed payload of the stream: the counted bytes, or the rest.
StreamPayload ==
    IF StreamSized
      THEN SubSeq(stream, PayloadAt + 5, PayloadAt + 4 + read_i32(stream, PayloadAt))
      ELSE SubSeq(stream, PayloadAt + 1, Len(stream))

\* The payload begins 28 B5 2F FD.
ZstdFramed ==
    /\ Len(StreamPayload) >= 4
    /\ SubSeq(StreamPayload, 1, 4) = <<40, 181, 47, 253>>

\* The read got as far as the payload.
PayloadRead ==
    /\ pc # "start"
    /\ outcome \notin HeaderKinds \cup {"UnexpectedEof"}

\* The stream of the header hdr with the payload frame around adata.
Reframed(frame) ==
    StreamBytes(StreamCase(MAGIC, hdr, Len(hdr.clips), adata, frame, <<>>))

\* r is a successful read with the pixels and row modes of crx.
SameDownstream(r) ==
    /\ r.st = "ok"
    /\ r.crx.data = crx.data
    /\ r.crx.encode_type = crx.encode_type

\* C17: read_from chooses the Zstandard decoder iff the payload begins
\* 28 B5 2F FD and the deflate decoder for every other payload, a shorter
\* one included; the same inner bytes in either frame give the same
\* pixels and row modes.
C17_Dispatch ==
    /\ PayloadRead => codec = IF ZstdFramed THEN "zstd" ELSE "deflate"
    /\ pc = "read" =>
          /\ SameDownstream(read_stream(Reframed(compress_data(adata))))
          /\ SameDownstream(read_stream(Reframed(DeflateFrame(adata))))

\* A Zstandard payload of a two-row image was read.
C17_Witness ==
    /\ pc = "read"
    /\ codec = "zstd"
    /\ ZstdFramed
    /\ crx.height = 2
    /\ read_stream(Reframed(DeflateFrame(adata))).codec = "deflate"

\* Byte k (from 0) of row y before the reorder, and the byte read for it.
RowByte(y, k) == Unreordered(crx.data, PixelSize(crx.bpp), RowDst(y) + k + 1)
SrcByte(y, k) == adata[RowSrc(y) + k + 1]

\* The first pixel of row y is as read.
FirstLiteral(y) ==
    \A k \in 0 .. PixelSize(crx.bpp) - 1 : RowByte(y, k) = SrcByte(y, k)

\* C18 (as claimed): in a mode-2 row the first pixel is literal and every
\* later byte k is src[k] + prev[k] modulo 256, prev[k] being the byte of
\* the same column in the row decoded before.
C18_TopPredicted ==
    pc \in {"read", "saved"} =>
        \A y \in 1 .. crx.height - 1 :
            (crx.encode_type[y + 1] = 2 /\ PlainBefore(y)) =>
                /\ FirstLiteral(y)
                /\ \A k \in PixelSize(crx.bpp) .. crx.width * PixelSize(crx.bpp) - 1 :
                      RowByte(y, k) = (SrcByte(y, k) + RowByte(y - 1, k)) % 256

\* C18 (amended): in a mode-2 row the first pixel is literal and every
\* later byte k is src[k] + prev[k - P] modulo 256, the byte one pixel to
\* the left in the row decoded before; on row 0 the row itself stands for
\* the row before.
C18_UpperLeftPredicted ==
    pc \in {"read", "saved"} =>
        \A y \in 0 .. crx.height - 1 :
            (crx.encode_type[y + 1] = 2 /\ PlainBefore(y)) =>
                /\ FirstLiteral(y)
                /\ \A k \in PixelSize(crx.bpp) .. crx.width * PixelSize(crx.bpp) - 1 :
                      RowByte(y, k)
                        = (SrcByte(y, k)
                           + RowByte(IF y = 0 THEN 0 ELSE y - 1,
                                     k - PixelSize(crx.bpp))) % 256

\* A mode-2 row of two pixels under another row was read.
C18_Witness ==
    /\ pc = "read"
    /\ crx.width = 2 /\ crx.height = 2
    /\ crx.encode_type[2] = 2
    /\ PlainBefore(1)
    /\ RowByte(0, 0) # RowByte(0, PixelSize(crx.bpp))

-----------------------------------------------------------------------------
(* The capacity check of add_file (SpecWriter). *)

\* The offset an entry appended to the entries of the state starts with.
AppendedOffset ==
    IF Len(file_headers) = 0 THEN header_max_size
    ELSE file_headers[Len(file_headers)].offset
         + file_headers[Len(file_headers)].size

\* The step is an add_file, and the index with the new entry reaches the
\* reserved size.
Appends == Len(file_headers') = Len(file_headers) + 1
MustGrow == Len(file_headers') * 72 + 4 >= header_max_size

\* C19: add_file grows the header iff, with the entry just appended,
\* count * 0x48 + 4 >= header_reserved; it then grows by 0x800 once, the
\* offset of every entry, the new one included, grows by 0x800 and no size
\* changes; otherwise the reserved size and the offsets stay as they are.
C19_CapacityCheck ==
    [][Appends =>
          /\ header_max_size' = IF MustGrow THEN header_max_size + 2048
                                ELSE header_max_size
          /\ \A i \in 1 .. Len(file_headers) :
                /\ file_headers'[i].offset
                     = file_headers[i].offset + (IF MustGrow THEN 2048 ELSE 0)
                /\ file_headers'[i].size = file_headers[i].size
          /\ file_headers'[Len(file_headers')].offset
               = AppendedOffset + (IF MustGrow THEN 2048 ELSE 0)
          /\ file_headers'[Len(file_headers')].size = 0]_vars

\* The add_file that grew the header has just been made.
C19_Witness ==
    /\ wpc = "open"
    /\ Len(file_headers) = 29
    /\ header_max_size = 4096
    /\ file_headers[29].size = 0
    /\ file_headers[29].offset = 4096 + Len(written[28])
    /\ Len(written[28]) > 0

-----------------------------------------------------------------------------
(* The bytes a mode-4 row writes (Spec). *)

\* The decode of the first row alone, into the buffer of the whole image.
FirstRow ==
    DecodeRows(RowState(Zeros(hdr.width * hdr.height * PixelSize(hdr.bpp)), 0),
               adata, hdr.width, 1, PixelSize(hdr.bpp), 0, 0)

\* r wrote inside the first row only: the decode ended, and the bytes
\* after the row are the zeros the buffer was made of.
OneRowOnly(r) ==
    /\ r.st = "ok"
    /\ \A i \in hdr.width * PixelSize(hdr.bpp) + 1 .. Len(r.dst) : r.dst[i] = 0

\* C20: a mode-4 row writes exactly width bytes for each channel, inside
\* the row; no run length of the input makes the decoder write into the
\* row after it or past the end of the pixel buffer.
C20_Mode4WritesOneRow ==
    (/\ pc \in {"read", "read_failed"}
     /\ hdr.width >= 1
     /\ adata[1] = 4
     /\ ~Truncated(adata, hdr.width, hdr.height, PixelSize(hdr.bpp)))
        => OneRowOnly(FirstRow)

-----------------------------------------------------------------------------
(* The effect of one write through the writer of an entry (SpecWriter). *)

\* The step is a write call on the entry add_file returned last.
WriteStep == plan'.writes # plan.writes

\* The bytes of f outside positions [lo, hi) are the same in g.
SameOutside(f, g, lo, hi) ==
    /\ Len(g) >= Len(f)
    /\ SubSeq(g, 1, Min(lo, Len(f))) = SubSeq(f, 1, Min(lo, Len(f)))
    /\ SubSeq(g, hi + 1, Len(f)) = SubSeq(f, hi + 1, Len(f))

\* The write of n bytes to entry h, which becomes g: the bytes are in the
\* file at [offset + size, offset + size + n), the offset stays and the
\* size grows by n.
WroteAtEnd(h, g, n) ==
    /\ g.offset = h.offset
    /\ g.name = h.name
    /\ g.size = h.size + n
    /\ ReadAt(file', h.offset + h.size, n)
         = SubSeq(written'[Len(written)], Len(written[Len(written)]) + 1,
                  Len(written'[Len(written)]))
    /\ SameOutside(file, file', h.offset + h.size, h.offset + h.size + n)

\* C21: a write through the writer add_file returned places the n bytes
\* written at [offset + size, offset + size + n) of that entry and adds n
\* to its size only; every other entry, the reserved header size and every
\* byte of the file outside that range stay as they were; no step of the
\* writer makes the size of an entry smaller.
C21_WriteEffect ==
    [][/\ WriteStep =>
             /\ Len(file_headers') = Len(file_headers)
             /\ WroteAtEnd(file_headers[Len(file_headers)],
                           file_headers'[Len(file_headers)],
                           Len(written'[Len(written)]) - Len(written[Len(written)]))
             /\ \A i \in 1 .. Len(file_headers) - 1 :
                   file_headers'[i] = file_headers[i]
             /\ header_max_size' = header_max_size
       /\ \A i \in 1 .. Len(file_headers) :
             file_headers'[i].size >= file_headers[i].size]_vars

\* Two writes, of 1 and of 0x800 bytes, were made to one entry added after
\* the header was grown, and the file holds them at the entry's range.
C21_Witness ==
    /\ wpc = "open"
    /\ plan.writes = 0
    /\ Len(file_headers) > 29
    /\ header_max_size = 2 * BlockSize
    /\ file_headers[Len(file_headers)].size = BlockSize + 1
    /\ EntryBytes(file, file_headers[Len(file_headers)]) = written[Len(written)]

-----------------------------------------------------------------------------
(* The entry add_file appends (SpecReserve). *)

\* The step is an add_file: the index changes and no write was made.
AddStep == file_headers' # file_headers /\ ~WriteStep

\* What the step added to the reserved size: 0x800 when the header grew.
Growth == header_max_size' - header_max_size

\* C22: add_file appends exactly one entry, of size 0; its offset is the
\* offset plus the size of the entry that was last before the call, or the
\* reserved size when the index was empty, taken before the header growth
\* of the call (which then moves it with the others, so that it still
\* follows the last entry); the earlier entries keep their order and names.
C22_AppendsOne ==
    [][AddStep =>
          /\ Len(file_headers') = Len(file_headers) + 1
          /\ file_headers'[Len(file_headers')].size = 0
          /\ file_headers'[Len(file_headers')].offset - Growth = AppendedOffset
          /\ file_headers'[Len(file_headers')].offset
               = (IF Len(file_headers) = 0 THEN header_max_size'
                  ELSE file_headers'[Len(file_headers)].offset
                       + file_headers'[Len(file_headers)].size)
          /\ \A i \in 1 .. Len(file_headers) :
                file_headers'[i].name = file_headers[i].name]_vars

\* A writer created with a reserved size of 0: the first add_file grew the
\* header with the index empty, the entry was written to, and the second
\* add_file put its entry after it.
C22_Witness ==
    /\ wpc = "open"
    /\ plan.kind = "given" /\ plan.size = 0
    /\ Len(file_headers) = 2
    /\ header_max_size = BlockSize
    /\ file_headers[1].offset = BlockSize
    /\ file_headers[1].size > 0
    /\ file_headers[2].offset = BlockSize + file_headers[1].size
    /\ file_headers[1].name # file_headers[2].name

-----------------------------------------------------------------------------
(* The reserved size calculate_header_size gives (SpecReserve). *)

\* The writer has just been created with the size computed for plan.count
\* files, and count * 0x48 + 4 did not leave u32.
JustSized ==
    /\ wpc = "open"
    /\ plan.kind = "sized"
    /\ Len(file_headers) = 0
    /\ ~HeaderBytesOverflow(plan.count)

\* C23: calculate_header_size(count) is the smallest multiple of 0x800
\* that is >= count * 0x48 + 4, for every count whose arithmetic stays in
\* 32 bits; it is 0x800 for count = 0.
C23_SmallestMultiple ==
    JustSized =>
        /\ header_max_size % 2048 = 0
        /\ header_max_size >= plan.count * 72 + 4
        /\ header_max_size - 2048 < plan.count * 72 + 4
        /\ plan.count = 0 => header_max_size = 2048

\* The size computed for 57 files, the first count that needs three blocks.
C23_Witness ==
    /\ JustSized
    /\ plan.count = 57
    /\ header_max_size = 3 * BlockSize

-----------------------------------------------------------------------------
(* The encoder on the row modes the decoder recorded (Spec). *)

\* The encode call of the recorded modes on the decoded pixels was made.
Encoded == pc \in {"reencoded", "reencode_failed"}

\* No row of the recorded modes is a mode-4 row.
NoMode4 == \A i \in 1 .. Len(crx.encode_type) : crx.encode_type[i] # 4

\* C24: for every vector of row modes decode_image records, modes 1, 2
\* and 3 on row 0 included, encode_image_bbp24 and encode_image_bbp32
\* return a result: no index out of range and no arithmetic overflow ends
\* the call.  (Stated for the vectors without mode 4, whose output size
\* is the subject of C25.)
C24_EncoderAccepts ==
    Encoded /\ NoMode4 => enc.st = "ok"

\* The encode call with an output buffer of twice the size the code
\* allocates: what the encoder writes when the buffer does not stop it.
Roomy ==
    EncodeRows(EncOk(<<>>, 2 * (crx.width * crx.height * PixelSize(crx.bpp)
                                + crx.height)),
               crx.data, crx.width, crx.height, crx.encode_type,
               PixelSize(crx.bpp), build, 0)

\* C25: with a mode-4 row among the recorded modes, the bytes the encoder
\* writes (the mode bytes, and in a mode-4 row a literal, then value and
\* count for each run) stay inside the buffer of width * height * P + height
\* bytes that encode_image_bbp24 / encode_image_bbp32 allocates.
C25_Mode4Fits ==
    Encoded /\ ~NoMode4 =>
        Len(Roomy.out) <= crx.width * crx.height * PixelSize(crx.bpp) + crx.height

-----------------------------------------------------------------------------
(* Reads of two sub-file readers over one source (SpecShared). *)

\* The read of buf_len bytes on reader s gave the bytes and made the reader
\* t: what the reader gives when it is used alone, and what it gives with
\* the source left at any position c.
ReadAlone(s, t, bytes, buf_len) ==
    /\ bytes = PckFileRead(file, s, buf_len).bytes
    /\ t = PckFileRead(file, s, buf_len).sub
    /\ \A c \in 0 .. Len(file) + 1 :
          /\ PckFileReadShared(file, c, s, buf_len).bytes = bytes
          /\ PckFileReadShared(file, c, s, buf_len).sub = t

-----------------------------------------------------------------------------
(* The header of a writer sized for its files (SpecReserve). *)

\* C27: a writer created with the reserved size calculate_header_size(n)
\* does not grow its header while n entries are added, for every n >= 0:
\* count * 0x48 + 4 is below the reserved size for every count <= n.
C27_SizedNeverGrows ==
    [][(/\ wpc = "open"
        /\ plan.kind = "sized"
        /\ Len(file_headers') <= plan.count)
          => /\ header_max_size' = header_max_size
             /\ Len(file_headers') * 72 + 4 < header_max_size']_vars

-----------------------------------------------------------------------------
(* The capacity of the header after add_file (SpecReserve). *)

\* C28: for a writer created with a reserved size that is a multiple of
\* 0x800, 0 included, after every add_file the reserved size is a multiple
\* of 0x800 and count * 0x48 + 4 is below it, whatever add_file calls and
\* writes came before; the reserved size never decreases.
C28_CapacityInvariant ==
    [][/\ header_max_size' >= header_max_size
       /\ AddStep =>
             /\ header_max_size' % 2048 = 0
             /\ Len(file_headers') * 72 + 4 < header_max_size']_vars

\* A writer created with a reserved size of 0 that has grown twice, at the
\* first and at the 29th add_file, with payload in its first entry.
C28_Witness ==
    /\ wpc = "open"
    /\ plan.kind = "given" /\ plan.size = 0
    /\ Len(file_headers) = 29
    /\ header_max_size = 2 * BlockSize
    /\ file_headers[1].size > 0
    /\ file_headers[1].offset = 2 * BlockSize

=============================================================================
